---- MODULE Spec2Model ----
(***************************************************************************)
(* Verification model of the resilient orchestration layer of VOC_Sport:   *)
(*   - KeyManager            (src/app/key_manager.py)                      *)
(*   - AIProcessor.rewrite_content and its key failover                    *)
(*                           (src/app/ai_processor.py)                     *)
(*   - run_pipeline_cycle and its per-source circuit breaker               *)
(*                           (src/app/pipeline.py)                         *)
(* The specifications share the variables:                                 *)
(*   Spec            the KeyManager driven by an arbitrary caller          *)
(*   SpecPerm, SpecCooldown, SpecRoundRobin                                *)
(*                   the same, with a record of what the caller reported   *)
(*   SpecRewrite     one AIProcessor serving rewrite_content calls         *)
(*   SpecCycle       repeated pipeline cycles over PIPELINE_ORDER          *)
(***************************************************************************)
EXTENDS Integers, Sequences, FiniteSets, TLC

(***************************************************************************)
(* Bounds of the model.                                                    *)
(***************************************************************************)
\* the longest key list of a category in AI_API_KEYS
MaxKeys == 2
\* the clock runs over 1..MaxTime
MaxTime == 3
\* cooldown_seconds handed to KeyManager.__init__, in clock ticks
CooldownSeconds == 1
\* failed rewrite calls an AIProcessor serves after its last key has failed
MaxStaleCalls == 2
\* sources of PIPELINE_ORDER that are modelled
MaxSources == 3
\* pipeline cycles that are run
MaxCycles == 5
\* new articles a feed can contribute in one cycle
MaxNewArticles == 2
\* feed items that exist
MaxItems == 2
\* pipeline cycles that are run when the articles are followed one by one
MaxArticleCycles == 2
\* feed items that exist when the cap on a batch is looked at
MaxBatchItems == 4
\* tag names a post payload can carry
MaxTags == 2
\* ids WordPress can give a new post
MaxPostId == 3
\* category slugs there are, the default parent's among them
MaxSlugs == 5
\* cycles main() is followed for
MaxRuns == 4

(***************************************************************************)
(* Configuration: AI_API_KEYS maps a category to its ordered key list.     *)
(* A key is identified by its position in that list, so a list is modelled *)
(* by its length.  Two configurations: one category with MaxKeys keys, and *)
(* two categories with MaxKeys - 1 keys and one key.                       *)
(***************************************************************************)
Configurations ==
  { [c \in {"economia"} |-> MaxKeys],
    [c \in {"economia", "politica"} |-> IF c = "economia" THEN MaxKeys - 1 ELSE 1] }

\* categories a caller may pass: the configurable ones and one that never is
CategoryInputs == {"economia", "politica", "esportes"}

\* key indexes a caller may pass; MaxKeys - 1 is out of range for the shorter lists
KeyIndexInputs == 0..(MaxKeys - 1)

\* float('inf') of report_failure: a cooldown no clock value ever exceeds
Inf == -1

\* the None that get_next_available_key returns when no key is usable
NoKey == -1

VARIABLES
  \* ---- KeyManager ----
  keys_by_category, \* category -> length of its key list
  key_states,       \* category -> index -> [cooldown_until, is_permanent_fail]
  last_used_index,  \* category -> round-robin cursor, -1 before the first use
  now,              \* time.time()
  km_ret,           \* the last KeyManager call and what it returned
  \* ---- what the KeyManager's caller did (read by no KeyManager code) ----
  perm_reported,    \* keys for which report_failure(.., is_permanent=True) was called
  fail_at,          \* key -> time of its last report_failure(.., False), 0 if none
                    \*   or if it was reported as permanently failed since
  pending,          \* keys with such a report and no report_success since
  failure_seen,     \* categories with a failure reported for one of their keys
  returned          \* category -> results of its latest get_next_available_key calls,
                    \*   recorded while no failure was reported for the category

VARIABLES
  \* ---- AIProcessor ----
  current_key_index, \* AIProcessor.current_key_index
  model_key,         \* index of the key self.model was configured with, NoKey if none
  rw,                \* the rewrite_content call: where it is and what it returned
  \* ---- what a rewrite_content call did ----
  attempts,          \* its generate_content calls: key used and outcome
  failed_keys,       \* the keys a request of this AIProcessor has failed with
  km_calls           \* its calls of KeyManager methods

VARIABLES
  \* ---- run_pipeline_cycle ----
  consecutive_failures, \* the Database's counter of each source
  cyc,                  \* the cycle: where it is, cycles completed, articles left
  always_raises,        \* the sources whose feed fetch raises on every call
  \* ---- what the cycles did ----
  visited,              \* the turns of the current cycle, in order
  streak,               \* increments of each counter since its last reset
  skipped_before        \* the sources the breaker skipped in the cycle before

VARIABLES
  \* ---- the articles ----
  article_status,       \* the Database's status of each feed item
  filtered,             \* new_articles, what filter_new_articles returned for the source
  batch,                \* new_articles[:max_articles_per_feed] of the current source
  \* ---- what the article loop did ----
  gone                  \* the article the loop body ran for last, and how

VARIABLES
  \* ---- the collaborators ----
  wp,                   \* WordPressClient: the last create_post call
  tax,                  \* CategoryManager: the assign_categories call
  res,                  \* the cycle's Database and WordPressClient: close() calls
  sched,                \* main(): the mode, where it is, the cycles it ran
  up                    \* WordPressClient: the upload_media_from_url call

kmVars == <<keys_by_category, key_states, last_used_index, now, km_ret>>
kmGhosts == <<perm_reported, fail_at, pending, failure_seen, returned>>
aiVars == <<current_key_index, model_key, rw, attempts, failed_keys, km_calls>>
cycVars == <<consecutive_failures, cyc, always_raises, visited, streak>>
cycGhosts == <<skipped_before>>
artVars == <<article_status, filtered, batch, gone>>
libVars == <<wp, tax, res, sched, up>>
vars == <<kmVars, kmGhosts, aiVars, cycVars, cycGhosts, artVars, libVars>>

ConfiguredCategories == DOMAIN keys_by_category

KeyIndexes(category) ==
  IF category \in ConfiguredCategories
  THEN 0..(keys_by_category[category] - 1) ELSE {}

\* every configured key, as <<category, index>>
AllKeys == {k \in CategoryInputs \X KeyIndexInputs : k[2] \in KeyIndexes(k[1])}

(***************************************************************************)
(* KeyManager.__init__                                                     *)
(***************************************************************************)
InitialKeyState == [cooldown_until |-> 0, is_permanent_fail |-> FALSE]

\* a call as its caller sees it: the arguments, and for get_next_available_key
\* the index it started scanning at and the index it returned
KMReturn(op, category, key_index, is_permanent, start_index, result) ==
  [op |-> op, category |-> category, key_index |-> key_index,
   is_permanent |-> is_permanent, start_index |-> start_index, result |-> result]

KMInit ==
  /\ keys_by_category \in Configurations
  /\ key_states = [c \in ConfiguredCategories |-> [i \in KeyIndexes(c) |-> InitialKeyState]]
  /\ last_used_index = [c \in ConfiguredCategories |-> -1]
  /\ now = 1
  /\ km_ret = KMReturn("__init__", "", NoKey, FALSE, NoKey, NoKey)

(***************************************************************************)
(* KeyManager.get_next_available_key                                       *)
(***************************************************************************)
\* (mutant: `>=` for `>`, a key is handed out at the instant its cooldown ends)
TimeAfterInclusive(t, cooldown_until) ==
  IF cooldown_until = Inf THEN FALSE ELSE t >= cooldown_until

\* time.time() > cooldown_until, where cooldown_until may be float('inf')
TimeAfter(t, cooldown_until) ==
  IF cooldown_until = Inf THEN FALSE ELSE t > cooldown_until

\* the test of the scan loop that lets a candidate be returned
Selectable(category, i) ==
  /\ ~key_states[category][i].is_permanent_fail
  /\ TimeAfter(now, key_states[category][i].cooldown_until)

\* (mutant: the scan starts at the key used last, not at the one after it)
StartIndexStuck(category) ==
  last_used_index[category] % keys_by_category[category]

StartIndex(category) ==
  (last_used_index[category] + 1) % keys_by_category[category]

\* the for-loop: the first selectable index in circular order from
\* start_index, over num_keys positions; NoKey if there is none
RECURSIVE ScanFrom(_, _, _)
ScanFrom(category, start_index, i) ==
  IF i >= keys_by_category[category] THEN NoKey
  ELSE LET current_index == (start_index + i) % keys_by_category[category]
       IN IF Selectable(category, current_index) THEN current_index
          ELSE ScanFrom(category, start_index, i + 1)

\* `if not category_keys`: the category is missing or its list is empty
NoCategoryKeys(category) ==
  \/ category \notin ConfiguredCategories
  \/ keys_by_category[category] = 0

\* (mutant: the scan looks at num_keys - 1 candidates, missing the first)
get_next_available_key_ShortScan(category) ==
  IF NoCategoryKeys(category)
  THEN /\ km_ret' = KMReturn("get_next_available_key", category, NoKey, FALSE,
                             NoKey, NoKey)
       /\ UNCHANGED <<keys_by_category, key_states, last_used_index, now>>
  ELSE LET start_index == StartIndex(category)
           current_index == ScanFrom(category, start_index, 1)
       IN /\ km_ret' = KMReturn("get_next_available_key", category, NoKey, FALSE,
                                start_index, current_index)
          /\ last_used_index' =
               IF current_index = NoKey THEN last_used_index
               ELSE [last_used_index EXCEPT ![category] = current_index]
          /\ UNCHANGED <<keys_by_category, key_states, now>>

\* (mutant: the cursor is set to where the scan started)
get_next_available_key_CursorAtStart(category) ==
  IF NoCategoryKeys(category)
  THEN /\ km_ret' = KMReturn("get_next_available_key", category, NoKey, FALSE,
                             NoKey, NoKey)
       /\ UNCHANGED <<keys_by_category, key_states, last_used_index, now>>
  ELSE LET start_index == StartIndex(category)
           current_index == ScanFrom(category, start_index, 0)
       IN /\ km_ret' = KMReturn("get_next_available_key", category, NoKey, FALSE,
                                start_index, current_index)
          /\ last_used_index' =
               IF current_index = NoKey THEN last_used_index
               ELSE [last_used_index EXCEPT ![category] = start_index]
          /\ UNCHANGED <<keys_by_category, key_states, now>>

get_next_available_key(category) ==
  IF NoCategoryKeys(category)
  THEN /\ km_ret' = KMReturn("get_next_available_key", category, NoKey, FALSE,
                             NoKey, NoKey)
       /\ UNCHANGED <<keys_by_category, key_states, last_used_index, now>>
  ELSE LET start_index == StartIndex(category)
           current_index == ScanFrom(category, start_index, 0)
       IN /\ km_ret' = KMReturn("get_next_available_key", category, NoKey, FALSE,
                                start_index, current_index)
          /\ last_used_index' =
               IF current_index = NoKey THEN last_used_index
               ELSE [last_used_index EXCEPT ![category] = current_index]
          /\ UNCHANGED <<keys_by_category, key_states, now>>

(***************************************************************************)
(* KeyManager.report_failure                                               *)
(***************************************************************************)
\* `category not in self.key_states or key_index not in self.key_states[category]`
UnknownKey(category, key_index) ==
  \/ category \notin DOMAIN key_states
  \/ key_index \notin DOMAIN key_states[category]

FailedKeyState(is_permanent) ==
  IF is_permanent
  THEN [cooldown_until |-> Inf, is_permanent_fail |-> TRUE]
  ELSE [cooldown_until |-> now + CooldownSeconds, is_permanent_fail |-> FALSE]

\* (mutant: the failure is applied to every key of the category)
report_failure_WholeCategory(category, key_index, is_permanent) ==
  /\ km_ret' = KMReturn("report_failure", category, key_index, is_permanent,
                        NoKey, NoKey)
  /\ key_states' =
       IF UnknownKey(category, key_index) THEN key_states
       ELSE [key_states EXCEPT ![category] =
                                 [i \in DOMAIN @ |-> FailedKeyState(is_permanent)]]
  /\ UNCHANGED <<keys_by_category, last_used_index, now>>

report_failure(category, key_index, is_permanent) ==
  /\ km_ret' = KMReturn("report_failure", category, key_index, is_permanent,
                        NoKey, NoKey)
  /\ key_states' =
       IF UnknownKey(category, key_index) THEN key_states
       ELSE [key_states EXCEPT ![category][key_index] = FailedKeyState(is_permanent)]
  /\ UNCHANGED <<keys_by_category, last_used_index, now>>

(***************************************************************************)
(* KeyManager.report_success                                               *)
(***************************************************************************)
\* (mutant: the cooldown is reset whether or not the key is permanently failed)
SucceededKeyStateAlways(state) ==
  InitialKeyState

SucceededKeyState(state) ==
  IF ~state.is_permanent_fail THEN InitialKeyState ELSE state

report_success(category, key_index) ==
  /\ km_ret' = KMReturn("report_success", category, key_index, FALSE, NoKey, NoKey)
  /\ key_states' =
       IF UnknownKey(category, key_index) THEN key_states
       ELSE [key_states EXCEPT ![category][key_index] =
                                  SucceededKeyState(key_states[category][key_index])]
  /\ UNCHANGED <<keys_by_category, last_used_index, now>>

\* time.time() moves on between two calls; the result of the call before
\* is no longer that of a call made now
AdvanceTime ==
  /\ now < MaxTime
  /\ now' = now + 1
  /\ km_ret' = KMReturn("time.sleep", "", NoKey, FALSE, NoKey, NoKey)
  /\ UNCHANGED <<keys_by_category, key_states, last_used_index, kmGhosts, aiVars, cycVars, cycGhosts, libVars, artVars>>

(***************************************************************************)
(* Specification Spec: any caller, any order of calls, time passing        *)
(* between calls.                                                          *)
(***************************************************************************)
GhostInit ==
  /\ perm_reported = {}
  /\ fail_at = [k \in AllKeys |-> 0]
  /\ pending = {}
  /\ failure_seen = {}
  /\ returned = [c \in ConfiguredCategories |-> <<>>]

(***************************************************************************)
(* run_pipeline_cycle (src/app/pipeline.py).  One cycle walks              *)
(* PIPELINE_ORDER; each source's turn is guarded by the circuit breaker,   *)
(* whose counters live in the Database (app/store.py).                     *)
(***************************************************************************)
\* the order of config.PIPELINE_ORDER
ConfiguredOrder ==
  <<"estadao_politica", "infomoney_politica", "exame_brasil",
    "estadao_economia", "infomoney_economia", "exame_economia",
    "infomoney_business", "exame_invest", "estadao_brasil",
    "infomoney_mercados", "infomoney_investir", "infomoney_mundo",
    "exame_carreira", "infomoney_carreira">>

PIPELINE_ORDER == SubSeq(ConfiguredOrder, 1, MaxSources)

Sources == {PIPELINE_ORDER[p] : p \in 1..Len(PIPELINE_ORDER)}

\* the feed items there are; the Database knows each by an id of its own
Items == 1..MaxItems

\* `if consecutive_failures >= 3`
CircuitThreshold == 3

\* (mutant: `>` for `>=`, the circuit opens one failure late)
IsOpenLate(count) == count > CircuitThreshold

IsOpen(count) == count >= CircuitThreshold

\* Database.get_consecutive_failures / increment_consecutive_failures /
\* reset_consecutive_failures: one integer per source
get_consecutive_failures(source_id) == consecutive_failures[source_id]

increment_consecutive_failures(source_id) ==
  [consecutive_failures EXCEPT ![source_id] = @ + 1]

reset_consecutive_failures(source_id) ==
  [consecutive_failures EXCEPT ![source_id] = 0]

\* what happened at a source's turn
Visit(source_id, outcome, slept) ==
  [source |-> source_id, outcome |-> outcome, slept |-> slept]

CycleState(pc, i, n, remaining, processed) ==
  [pc |-> pc, i |-> i, n |-> n, remaining |-> remaining,
   processed_articles_in_cycle |-> processed]

\* `if i < len(PIPELINE_ORDER) - 1: time.sleep(per_feed_delay_seconds)`
PerFeedDelay(i) == i < Len(PIPELINE_ORDER) - 1

\* the for loop's step: the next source, or the finally block after the last
NextSource(i) ==
  IF i + 1 < Len(PIPELINE_ORDER) THEN [pc |-> "loop", i |-> i + 1]
  ELSE [pc |-> "finally", i |-> i + 1]

\* (mutant: the feed-level exception ends the source loop)
AfterFeedExceptionAbort(i) == [pc |-> "finally", i |-> i + 1]

\* where the cycle goes on after `except Exception` at the feed level
AfterFeedException(i) == NextSource(i)

\* (mutant: the feed-level handler leaves the counter alone)
FeedLevelFailureSwallowed(source_id) == consecutive_failures

\* the feed-level handler: db.increment_consecutive_failures(source_id)
FeedLevelFailure(source_id) == increment_consecutive_failures(source_id)

CycleInitFor(items) ==
  /\ consecutive_failures = [s \in Sources |-> 0]
  /\ streak = [s \in Sources |-> 0]
  /\ always_raises = {}
  /\ cyc = CycleState("idle", 0, 0, 0, 0)
  /\ visited = <<>>
  /\ skipped_before = {}
  /\ article_status = [a \in items |-> "ABSENT"]
  /\ filtered = <<>>
  /\ batch = <<>>
  /\ gone = [id |-> 0, path |-> "none", writes |-> <<>>,
              pool_exhausted |-> FALSE, slept |-> FALSE, steps |-> <<>>,
              url |-> [scheme |-> "", host |-> <<>>, path |-> <<>>]]

CycleInit == CycleInitFor(Items)

\* no AIProcessor constructed yet
AINone ==
  /\ current_key_index = 0
  /\ model_key = NoKey
  /\ rw = [pc |-> "none", category |-> "", i |-> 0, result |-> "", last_error |-> ""]
  /\ attempts = <<>>
  /\ failed_keys = {}
  /\ km_calls = <<>>

\* no create_post call made yet
WPNone ==
  wp = [payload |-> [meta |-> FALSE, tags |-> 0, status |-> "absent"],
        requests |-> <<>>, result |-> 0, called |-> FALSE]

\* no assign_categories call made yet
TaxNone ==
  tax = [pc |-> "idle", found |-> {}, todo |-> {}, final_category_ids |-> {},
         default_ok |-> FALSE, result |-> <<>>]

\* Database() and WordPressClient() as constructed: close() not called;
\* escaped: an exception is on its way out of the source loop
Resources(db_closes, wp_closes, escaped) ==
  [db_closes |-> db_closes, wp_closes |-> wp_closes, escaped |-> escaped]

ResNone == res = Resources(0, 0, FALSE)

\* main() not started
SchedNone == sched = [pc |-> "start", mode |-> "", due |-> FALSE, cycles |-> <<>>]

\* no upload_media_from_url call made yet
UpNone == up = [pc |-> "idle", attempt |-> 0, tried |-> <<>>, result |-> "", slept |-> 0]

LibInit == WPNone /\ TaxNone /\ ResNone /\ SchedNone /\ UpNone

Init == KMInit /\ GhostInit /\ AINone /\ CycleInit /\ LibInit

CallGetNextAvailableKey(category) ==
  get_next_available_key(category) /\ UNCHANGED <<kmGhosts, aiVars, cycVars, cycGhosts, libVars, artVars>>

CallReportFailure(category, key_index, is_permanent) ==
  report_failure(category, key_index, is_permanent) /\ UNCHANGED <<kmGhosts, aiVars, cycVars, cycGhosts, libVars, artVars>>

CallReportSuccess(category, key_index) ==
  report_success(category, key_index) /\ UNCHANGED <<kmGhosts, aiVars, cycVars, cycGhosts, libVars, artVars>>

Next ==
  \/ \E category \in CategoryInputs : CallGetNextAvailableKey(category)
  \/ \E category \in CategoryInputs, key_index \in KeyIndexInputs, is_permanent \in BOOLEAN :
        CallReportFailure(category, key_index, is_permanent)
  \/ \E category \in CategoryInputs, key_index \in KeyIndexInputs :
        CallReportSuccess(category, key_index)
  \/ AdvanceTime

Spec == Init /\ [][Next]_vars

(***************************************************************************)
(* The same KeyManager and caller, with a record of what the caller        *)
(* reported and was handed.  One record per specification.                 *)
(***************************************************************************)
\* the call just made names a configured key
NamesKey(r) == <<r.category, r.key_index>> \in AllKeys

\* SpecPerm records the keys reported as permanently failed
ObservePerm ==
  LET r == km_ret'
  IN /\ perm_reported' =
          IF r.op = "report_failure" /\ NamesKey(r) /\ r.is_permanent
          THEN perm_reported \cup {<<r.category, r.key_index>>}
          ELSE perm_reported
     /\ UNCHANGED <<fail_at, pending, failure_seen, returned, aiVars, cycVars, cycGhosts, libVars, artVars>>

NextPerm ==
  \/ \E category \in CategoryInputs :
        get_next_available_key(category) /\ ObservePerm
  \/ \E category \in CategoryInputs, key_index \in KeyIndexInputs, is_permanent \in BOOLEAN :
        report_failure(category, key_index, is_permanent) /\ ObservePerm
  \/ \E category \in CategoryInputs, key_index \in KeyIndexInputs :
        report_success(category, key_index) /\ ObservePerm
  \/ AdvanceTime

SpecPerm == Init /\ [][NextPerm]_vars

\* SpecCooldown records, per key, the cooldown its caller knows of: when the
\* key was last reported as transiently failed, and whether a success was
\* reported for it since.  Reporting the key as permanently failed ends that
\* cooldown and forgets it.
ObserveCooldown ==
  LET r == km_ret'
      k == <<r.category, r.key_index>>
      failure == r.op = "report_failure" /\ NamesKey(r)
      success == r.op = "report_success" /\ NamesKey(r)
  IN /\ fail_at' =
          IF failure THEN [fail_at EXCEPT ![k] = IF r.is_permanent THEN 0 ELSE now]
          ELSE fail_at
     /\ pending' =
          IF failure /\ ~r.is_permanent THEN pending \cup {k}
          ELSE IF failure \/ success THEN pending \ {k}
          ELSE pending
     /\ UNCHANGED <<perm_reported, failure_seen, returned, aiVars, cycVars, cycGhosts, libVars, artVars>>

NextCooldown ==
  \/ \E category \in CategoryInputs :
        get_next_available_key(category) /\ ObserveCooldown
  \/ \E category \in CategoryInputs, key_index \in KeyIndexInputs, is_permanent \in BOOLEAN :
        report_failure(category, key_index, is_permanent) /\ ObserveCooldown
  \/ \E category \in CategoryInputs, key_index \in KeyIndexInputs :
        report_success(category, key_index) /\ ObserveCooldown
  \/ AdvanceTime

SpecCooldown == Init /\ [][NextCooldown]_vars

\* SpecRoundRobin records, per category, the results of the latest
\* num_keys + 1 calls of get_next_available_key, until a failure is
\* reported for a key of the category
Window(c, seq) ==
  IF Len(seq) > keys_by_category[c] + 1 THEN Tail(seq) ELSE seq

ObserveReturned ==
  LET r == km_ret'
      failure == r.op = "report_failure" /\ NamesKey(r)
  IN /\ failure_seen' =
          IF failure THEN failure_seen \cup {r.category} ELSE failure_seen
     /\ returned' =
          IF failure THEN [returned EXCEPT ![r.category] = <<>>]
          ELSE IF /\ r.op = "get_next_available_key"
                  /\ r.category \in ConfiguredCategories
                  /\ r.category \notin failure_seen
               THEN [returned EXCEPT ![r.category] =
                                       Window(r.category, Append(@, r.result))]
               ELSE returned
     /\ UNCHANGED <<perm_reported, fail_at, pending, aiVars, cycVars, cycGhosts, libVars, artVars>>

NextRoundRobin ==
  \/ \E category \in CategoryInputs :
        get_next_available_key(category) /\ ObserveReturned
  \/ \E category \in CategoryInputs, key_index \in KeyIndexInputs, is_permanent \in BOOLEAN :
        report_failure(category, key_index, is_permanent) /\ ObserveReturned
  \/ \E category \in CategoryInputs, key_index \in KeyIndexInputs :
        report_success(category, key_index) /\ ObserveReturned
  \/ AdvanceTime

SpecRoundRobin == Init /\ [][NextRoundRobin]_vars

(***************************************************************************)
(* Claims about the KeyManager.                                            *)
(***************************************************************************)
IsGet(r) == r.op = "get_next_available_key"

KeyState(k) == key_states[k[1]][k[2]]

\* C1 (SpecPerm): after report_failure(cat, i, permanent=True), no later
\* get_next_available_key(cat) returns index i, whatever calls and however
\* much time lie in between.
C1_PermanentNeverReturned ==
  (IsGet(km_ret) /\ km_ret.result # NoKey)
    => <<km_ret.category, km_ret.result>> \notin perm_reported

\* C2 (Spec): permanently_failed is a one-way transition: no step of the
\* KeyManager takes a key's flag from true back to false.
C2_PermanentIsOneWay ==
  [][\A k \in AllKeys : KeyState(k).is_permanent_fail => KeyState(k)'.is_permanent_fail]_vars

\* the cooldown of key k that its caller knows of has not run out
CooldownRunning(k) == fail_at[k] # 0 /\ now <= fail_at[k] + CooldownSeconds

\* the second half of C3: a key that was reported as transiently failed at
\* time t and is not permanently failed is handed out again at every time
\* greater than t + cooldown_seconds: a scan that starts at it returns it
C3_EligibleAfterCooldown ==
  (IsGet(km_ret) /\ <<km_ret.category, km_ret.start_index>> \in AllKeys)
    => LET k == <<km_ret.category, km_ret.start_index>>
       IN (/\ fail_at[k] # 0
           /\ ~KeyState(k).is_permanent_fail
           /\ now > fail_at[k] + CooldownSeconds)
            => km_ret.result = km_ret.start_index

\* C3 as stated (SpecCooldown): after report_failure(cat, i, permanent=False)
\* at time t, get_next_available_key(cat) does not return i while
\* now <= t + cooldown_seconds, and i is eligible again strictly after.
C3_Original ==
  /\ (IsGet(km_ret) /\ km_ret.result # NoKey)
       => ~CooldownRunning(<<km_ret.category, km_ret.result>>)
  /\ C3_EligibleAfterCooldown

\* C3 as amended (SpecCooldown): ... does not return i while
\* now <= t + cooldown_seconds unless report_success(cat, i) was called
\* in between, and i is eligible again strictly after.
C3_CooldownRespected ==
  /\ (IsGet(km_ret) /\ km_ret.result # NoKey)
       => LET k == <<km_ret.category, km_ret.result>>
          IN k \in pending => ~CooldownRunning(k)
  /\ C3_EligibleAfterCooldown

\* a scan started at a key whose cooldown ends at this very instant, and
\* passed it over
C3_Witness ==
  /\ IsGet(km_ret)
  /\ <<km_ret.category, km_ret.start_index>> \in pending
  /\ now = fail_at[<<km_ret.category, km_ret.start_index>>] + CooldownSeconds
  /\ km_ret.result # km_ret.start_index

\* C4 (SpecRoundRobin): in a category with N keys and no reported failure,
\* consecutive calls of get_next_available_key return a key each, every
\* one the previous one plus 1 modulo N, so that any N consecutive calls
\* return N different indexes and the call after them repeats the first.
C4_RoundRobin ==
  \A c \in ConfiguredCategories \ failure_seen :
    LET h == returned[c]
        N == keys_by_category[c]
    IN /\ \A j \in 1..Len(h) : h[j] \in 0..(N - 1)
       /\ \A j \in 2..Len(h) : h[j] = (h[j - 1] + 1) % N
       /\ \A i, j \in 1..Len(h) : (i < j /\ j - i < N) => h[i] # h[j]
       /\ \A i, j \in 1..Len(h) : j - i = N => h[i] = h[j]

\* MaxKeys + 1 calls were answered in a category of MaxKeys keys
C4_Witness ==
  \E c \in ConfiguredCategories \ failure_seen :
    /\ keys_by_category[c] = MaxKeys
    /\ Len(returned[c]) = MaxKeys + 1

\* a key is permanently failed or still on cooldown (now <= cooldown_until)
FailedOrCooling(c, i) ==
  \/ key_states[c][i].is_permanent_fail
  \/ key_states[c][i].cooldown_until = Inf
  \/ now <= key_states[c][i].cooldown_until

\* C5 (Spec): get_next_available_key(cat) returns None exactly when every
\* key of cat is permanently failed or still on cooldown at the call, and a
\* key it returns is one that is neither.
C5_NoneIffExhausted ==
  IsGet(km_ret) =>
    /\ (km_ret.result = NoKey) <=>
         (\A i \in KeyIndexes(km_ret.category) : FailedOrCooling(km_ret.category, i))
    /\ km_ret.result # NoKey =>
         /\ km_ret.result \in KeyIndexes(km_ret.category)
         /\ ~FailedOrCooling(km_ret.category, km_ret.result)

\* None was returned with one key permanently failed and another cooling,
\* in a category of more than one key
C5_Witness ==
  /\ IsGet(km_ret)
  /\ km_ret.result = NoKey
  /\ \E i, j \in KeyIndexes(km_ret.category) :
       /\ key_states[km_ret.category][i].is_permanent_fail
       /\ ~key_states[km_ret.category][j].is_permanent_fail

\* C6 (SpecCooldown): report_success(cat, i) on a key that is not
\* permanently failed leaves it with no cooldown, so that a scan starting at
\* it returns it at once; a second report_success(cat, i) right after the
\* first changes nothing; on a permanently failed key it changes nothing.
C6_ReportSuccess ==
  [][km_ret'.op = "report_success" =>
       \A k \in AllKeys :
         <<km_ret'.category, km_ret'.key_index>> = k =>
           /\ ~KeyState(k).is_permanent_fail =>
                /\ KeyState(k)' = InitialKeyState
                /\ ScanFrom(k[1], k[2], 0)' = k[2]
           /\ KeyState(k).is_permanent_fail =>
                UNCHANGED <<key_states, last_used_index>>
           /\ (km_ret.op = "report_success" /\ <<km_ret.category, km_ret.key_index>> = k) =>
                UNCHANGED <<key_states, last_used_index>>
           /\ \A other \in AllKeys \ {k} : KeyState(other)' = KeyState(other)
    ]_vars

\* a success was just reported for a key whose cooldown had not run out
C6_Witness ==
  /\ km_ret.op = "report_success"
  /\ NamesKey(km_ret)
  /\ LET k == <<km_ret.category, km_ret.key_index>>
     IN /\ CooldownRunning(k)
        /\ k \notin pending
        /\ KeyState(k) = InitialKeyState

(***************************************************************************)
(* AIProcessor (src/app/ai_processor.py).  It flattens AI_API_KEYS into    *)
(* one list, api_keys, and walks it with current_key_index; it holds no    *)
(* KeyManager.                                                             *)
(***************************************************************************)
\* the categories of AI_API_KEYS in the order of the dict
CategoryOrder == <<"economia", "politica">>

\* the keys of the categories from position n of CategoryOrder on, each
\* category's list in its order, as <<category, index>>
RECURSIVE FlattenFrom(_)
FlattenFrom(n) ==
  IF n > Len(CategoryOrder) THEN <<>>
  ELSE LET c == CategoryOrder[n]
       IN [j \in 1..(IF c \in ConfiguredCategories THEN keys_by_category[c] ELSE 0)
             |-> <<c, j - 1>>] \o FlattenFrom(n + 1)

\* self.api_keys; position p of the Python list is api_keys[p + 1]
api_keys == FlattenFrom(1)

\* what one generate_content call and the parsing of its answer come to:
\* a valid rewrite, a rejection by the AI ({"erro": ..}), or an exception
GenerationOutcomes == {"success", "erro", "quota", "invalid_key", "other"}

Raises(outcome) == outcome \in {"quota", "invalid_key", "other"}

\* _configure_model, started with self.current_key_index = index, when the
\* next `failures` keys make genai.configure / GenerativeModel raise: each
\* such key is passed over by _failover_to_next_key; running off the list
\* raises AllKeysFailedError and leaves the model as it was
ConfigureModel(index, failures) ==
  IF index + failures >= Len(api_keys)
  THEN [current_key_index |-> IF index >= Len(api_keys) THEN index ELSE Len(api_keys),
        model_key |-> model_key, raised |-> TRUE]
  ELSE [current_key_index |-> index + failures,
        model_key |-> index + failures, raised |-> FALSE]

RewriteState(pc, category, i, result, last_error) ==
  [pc |-> pc, category |-> category, i |-> i, result |-> result,
   last_error |-> last_error]

\* AIProcessor.__init__: current_key_index = 0, then _configure_model
NewAIProcessor(failures) ==
  /\ rw.pc \in {"none", "idle"}
  /\ LET c == ConfigureModel(0, failures)
     IN /\ current_key_index' = c.current_key_index
        /\ model_key' = IF c.raised THEN NoKey ELSE c.model_key
        /\ rw' = RewriteState(IF c.raised THEN "none" ELSE "idle", "", 0,
                              IF c.raised THEN "AllKeysFailedError" ELSE "", "")
  /\ attempts' = <<>>
  /\ failed_keys' = {}
  /\ UNCHANGED <<kmVars, kmGhosts, cycVars, cycGhosts, libVars, artVars, km_calls>>

\* rewrite_content up to its loop: the prompt is built, last_error is set
RewriteBegin(category) ==
  /\ rw.pc = "idle"
  /\ current_key_index < Len(api_keys) + MaxStaleCalls
  /\ rw' = RewriteState("loop", category, 0, "", "Unknown error")
  /\ attempts' = <<>>
  /\ km_calls' = <<>>
  /\ UNCHANGED <<kmVars, kmGhosts, cycVars, cycGhosts, libVars, artVars, current_key_index, model_key,
                 failed_keys>>

\* (mutant: a valid rewrite is not returned, the loop goes on)
RewriteAttemptNoReturn(outcome, failures) ==
  /\ rw.pc = "loop"
  /\ attempts' = Append(attempts, [key |-> model_key, outcome |-> outcome])
  /\ failed_keys' = IF Raises(outcome) THEN failed_keys \cup {model_key} ELSE failed_keys
  /\ IF ~Raises(outcome)
     THEN /\ rw' = IF outcome = "success" /\ rw.i + 1 < Len(api_keys)
                   THEN RewriteState("loop", rw.category, rw.i + 1, "", rw.last_error)
                   ELSE IF outcome = "success"
                   THEN RewriteState("idle", rw.category, rw.i + 1,
                                     "All available API keys failed", rw.last_error)
                   ELSE RewriteState("idle", rw.category, rw.i, outcome, rw.last_error)
          /\ UNCHANGED <<current_key_index, model_key>>
     ELSE IF current_key_index + 1 < Len(api_keys)
     THEN LET c == ConfigureModel(current_key_index + 1, failures)
          IN /\ current_key_index' = c.current_key_index
             /\ model_key' = c.model_key
             /\ rw' = IF c.raised
                      THEN RewriteState("idle", rw.category, rw.i,
                                        "AllKeysFailedError", outcome)
                      ELSE IF rw.i + 1 < Len(api_keys)
                      THEN RewriteState("loop", rw.category, rw.i + 1, "", outcome)
                      ELSE RewriteState("idle", rw.category, rw.i + 1,
                                        "All available API keys failed", outcome)
     ELSE /\ current_key_index' = current_key_index + 1
          /\ model_key' = model_key
          /\ rw' = RewriteState("idle", rw.category, rw.i,
                                "All available API keys failed", outcome)
  /\ UNCHANGED <<kmVars, kmGhosts, cycVars, cycGhosts, libVars, artVars, km_calls>>

\* one iteration of `for _ in range(len(self.api_keys))`: generate_content
\* with self.model; a rewrite or a rejection returns, an exception fails
\* over to the next key, and the loop goes on if there is one
RewriteAttempt(outcome, failures) ==
  /\ rw.pc = "loop"
  /\ attempts' = Append(attempts, [key |-> model_key, outcome |-> outcome])
  /\ failed_keys' = IF Raises(outcome) THEN failed_keys \cup {model_key} ELSE failed_keys
  /\ IF ~Raises(outcome)
     THEN /\ rw' = RewriteState("idle", rw.category, rw.i, outcome, rw.last_error)
          /\ UNCHANGED <<current_key_index, model_key>>
     ELSE IF current_key_index + 1 < Len(api_keys)
     THEN LET c == ConfigureModel(current_key_index + 1, failures)
          IN /\ current_key_index' = c.current_key_index
             /\ model_key' = c.model_key
             /\ rw' = IF c.raised
                      THEN RewriteState("idle", rw.category, rw.i,
                                        "AllKeysFailedError", outcome)
                      ELSE IF rw.i + 1 < Len(api_keys)
                      THEN RewriteState("loop", rw.category, rw.i + 1, "", outcome)
                      ELSE RewriteState("idle", rw.category, rw.i + 1,
                                        "All available API keys failed", outcome)
     ELSE /\ current_key_index' = current_key_index + 1
          /\ model_key' = model_key
          /\ rw' = RewriteState("idle", rw.category, rw.i,
                                "All available API keys failed", outcome)
  /\ UNCHANGED <<kmVars, kmGhosts, cycVars, cycGhosts, libVars, artVars, km_calls>>

NextRewrite ==
  \/ \E failures \in 0..MaxKeys : NewAIProcessor(failures)
  \/ \E category \in CategoryInputs : RewriteBegin(category)
  \/ \E outcome \in GenerationOutcomes, failures \in 0..MaxKeys :
       RewriteAttempt(outcome, failures)

SpecRewrite == Init /\ [][NextRewrite]_vars

\* rewrite_content runs to its end once called: the interpreter does not
\* stop inside the loop
SpecRewriteFair ==
  SpecRewrite /\ WF_vars(\E outcome \in GenerationOutcomes, failures \in 0..MaxKeys :
                            RewriteAttempt(outcome, failures))

(***************************************************************************)
(* Claims about AIProcessor.rewrite_content.                               *)
(***************************************************************************)
CallsOf(op) == {n \in 1..Len(km_calls) : km_calls[n].op = op}

\* a finished rewrite_content call whose first credential failed with a
\* quota error and whose second credential succeeded
QuotaThenSuccess ==
  /\ rw.pc = "idle"
  /\ Len(attempts) = 2
  /\ attempts[1].outcome = "quota"
  /\ attempts[2].outcome = "success"

\* C7 (SpecRewrite): a rewrite call whose first credential fails with a quota
\* error and whose second succeeds uses the second credential, returns
\* success, and has reported exactly one failure (for the first credential)
\* and exactly one success (for the second) to the key pool manager.
C7_FailoverReported ==
  QuotaThenSuccess =>
    /\ rw.result = "success"
    /\ attempts[2].key # attempts[1].key
    /\ Cardinality(CallsOf("report_failure")) = 1
    /\ Cardinality(CallsOf("report_success")) = 1
    /\ \A n \in CallsOf("report_failure") : km_calls[n].key = attempts[1].key
    /\ \A n \in CallsOf("report_success") : km_calls[n].key = attempts[2].key

\* the part of C7 the code does keep: the second credential is used and
\* the call returns success
C7_FailoverWorks ==
  QuotaThenSuccess =>
    /\ rw.result = "success"
    /\ attempts[2].key # attempts[1].key
    /\ attempts[2].key = current_key_index

(***************************************************************************)
(* The steps of run_pipeline_cycle.                                        *)
(***************************************************************************)
source_id == PIPELINE_ORDER[cyc.i + 1]

\* the feed of a source is broken from the first cycle on: fetching it
\* raises on every call
FeedBreaks(s) ==
  /\ cyc.pc = "idle"
  /\ cyc.n = 0
  /\ always_raises = {}
  /\ always_raises' = {s}
  /\ UNCHANGED <<kmVars, kmGhosts, aiVars, cycGhosts, libVars, artVars, consecutive_failures, streak, cyc, visited>>

\* run_pipeline_cycle up to the loop
EnterCycle ==
  /\ cyc.pc = "idle"
  /\ cyc.n < MaxCycles
  /\ cyc' = CycleState("loop", 0, cyc.n, 0, 0)
  /\ visited' = <<>>
  /\ res' = Resources(0, 0, FALSE)
  /\ UNCHANGED <<kmVars, kmGhosts, aiVars, artVars, wp, tax, sched, up, consecutive_failures,
                 streak, always_raises>>

StartCycle == EnterCycle /\ UNCHANGED cycGhosts

\* (mutant: the skip forgets to reset the counter)
SkipOpenCircuitNoReset ==
  /\ cyc.pc = "loop"
  /\ IsOpen(get_consecutive_failures(source_id))
  /\ visited' = Append(visited, Visit(source_id, "circuit_open", FALSE))
  /\ cyc' = [cyc EXCEPT !.pc = NextSource(cyc.i).pc, !.i = NextSource(cyc.i).i]
  /\ UNCHANGED <<kmVars, kmGhosts, aiVars, cycGhosts, libVars, artVars, consecutive_failures, streak, always_raises>>

\* circuit open: reset the counter and `continue` (no fetch, no delay)
SkipOpenCircuit ==
  /\ cyc.pc = "loop"
  /\ IsOpen(get_consecutive_failures(source_id))
  /\ consecutive_failures' = reset_consecutive_failures(source_id)
  /\ streak' = [streak EXCEPT ![source_id] = 0]
  /\ visited' = Append(visited, Visit(source_id, "circuit_open", FALSE))
  /\ cyc' = [cyc EXCEPT !.pc = NextSource(cyc.i).pc, !.i = NextSource(cyc.i).i]
  /\ UNCHANGED <<kmVars, kmGhosts, aiVars, cycGhosts, libVars, artVars, always_raises>>

\* the `except Exception` of the source's try block, then the per-feed delay
HandleFeedException(log) ==
  /\ consecutive_failures' = FeedLevelFailure(source_id)
  /\ streak' = [streak EXCEPT ![source_id] = @ + 1]
  /\ visited' = Append(log, Visit(source_id, "feed_exception", PerFeedDelay(cyc.i)))
  /\ cyc' = [cyc EXCEPT !.pc = AfterFeedException(cyc.i).pc,
                        !.i = AfterFeedException(cyc.i).i,
                        !.remaining = 0]
  /\ UNCHANGED <<kmVars, kmGhosts, aiVars, cycGhosts, libVars, artVars, always_raises>>

\* read_feeds or filter_new_articles raises
FetchRaises ==
  /\ cyc.pc = "loop"
  /\ ~IsOpen(get_consecutive_failures(source_id))
  /\ HandleFeedException(visited)

\* `if not new_articles: continue` (no reset, no delay)
NoNewArticles ==
  /\ cyc.pc = "loop"
  /\ ~IsOpen(get_consecutive_failures(source_id))
  /\ source_id \notin always_raises
  /\ visited' = Append(visited, Visit(source_id, "no_new_articles", FALSE))
  /\ cyc' = [cyc EXCEPT !.pc = NextSource(cyc.i).pc, !.i = NextSource(cyc.i).i]
  /\ UNCHANGED <<kmVars, kmGhosts, aiVars, cycGhosts, libVars, artVars, consecutive_failures, streak, always_raises>>

\* the request for the feed fails (timeout, connection error, HTTP error):
\* read_single_feed catches the RequestException and returns [], so
\* read_feeds returns normally, new_articles is empty and the turn ends by
\* `continue` like one that found nothing new
FeedRequestFails ==
  /\ cyc.pc = "loop"
  /\ ~IsOpen(get_consecutive_failures(source_id))
  /\ source_id \notin always_raises
  /\ visited' = Append(visited, Visit(source_id, "request_exception", FALSE))
  /\ cyc' = [cyc EXCEPT !.pc = NextSource(cyc.i).pc, !.i = NextSource(cyc.i).i]
  /\ UNCHANGED <<kmVars, kmGhosts, aiVars, cycGhosts, libVars, artVars, consecutive_failures, streak, always_raises>>

Min(a, b) == IF a < b THEN a ELSE b

\* SCHEDULE_CONFIG['max_articles_per_feed']
max_articles_per_feed == 3

\* the fetch returns new_articles, and the article loop starts on the slice
\* new_articles[:max_articles_per_feed]
FoundNewArticles(new_articles) ==
  /\ cyc.pc = "loop"
  /\ ~IsOpen(get_consecutive_failures(source_id))
  /\ source_id \notin always_raises
  /\ visited' = Append(visited, Visit(source_id, "fetched", FALSE))
  /\ cyc' = [cyc EXCEPT !.pc = "articles",
                        !.remaining = Min(new_articles, max_articles_per_feed)]
  /\ UNCHANGED <<kmVars, kmGhosts, aiVars, cycGhosts, libVars, artVars, consecutive_failures, streak, always_raises>>

\* how one article's pass through the loop body ends; "exception" is caught
\* by the article's own handler, which marks the article FAILED
ArticleOutcomes == {"PUBLISHED", "FAILED", "SKIPPED", "exception"}

\* (mutant: an article that fails counts as a failure of its source)
ProcessArticleCounting(outcome) ==
  /\ cyc.pc = "articles"
  /\ cyc.remaining > 0
  /\ cyc' = [cyc EXCEPT !.remaining = @ - 1,
                        !.processed_articles_in_cycle =
                           IF outcome = "PUBLISHED" THEN @ + 1 ELSE @]
  /\ consecutive_failures' =
       IF outcome \in {"FAILED", "exception"}
       THEN increment_consecutive_failures(source_id) ELSE consecutive_failures
  /\ UNCHANGED <<kmVars, kmGhosts, aiVars, cycGhosts, libVars, artVars, streak, always_raises, visited>>

ProcessArticle(outcome) ==
  /\ cyc.pc = "articles"
  /\ cyc.remaining > 0
  /\ cyc' = [cyc EXCEPT !.remaining = @ - 1,
                        !.processed_articles_in_cycle =
                           IF outcome = "PUBLISHED" THEN @ + 1 ELSE @]
  /\ UNCHANGED <<kmVars, kmGhosts, aiVars, cycGhosts, libVars, artVars, consecutive_failures, streak, always_raises, visited>>

\* an exception escapes the article loop (article_data['db_id'], or the
\* article handler's own update_article_status) and reaches the feed level
ArticleLoopRaises ==
  /\ cyc.pc = "articles"
  /\ cyc.remaining > 0
  /\ HandleFeedException(SubSeq(visited, 1, Len(visited) - 1))

\* the article loop is over: reset the counter, then the per-feed delay
FinishSource ==
  /\ cyc.pc = "articles"
  /\ cyc.remaining = 0
  /\ consecutive_failures' = reset_consecutive_failures(source_id)
  /\ streak' = [streak EXCEPT ![source_id] = 0]
  /\ visited' = Append(SubSeq(visited, 1, Len(visited) - 1),
                       Visit(source_id, "clean_pass", PerFeedDelay(cyc.i)))
  /\ cyc' = [cyc EXCEPT !.pc = NextSource(cyc.i).pc, !.i = NextSource(cyc.i).i]
  /\ UNCHANGED <<kmVars, kmGhosts, aiVars, cycGhosts, libVars, artVars, always_raises>>

\* (mutant: the two close() calls stand after the loop, not in a finally)
EndCycleNoFinally ==
  /\ cyc.pc = "finally"
  /\ cyc' = [cyc EXCEPT !.pc = "idle", !.n = @ + 1]
  /\ res' = IF res.escaped THEN res
            ELSE [res EXCEPT !.db_closes = @ + 1, !.wp_closes = @ + 1]
  /\ UNCHANGED <<kmVars, kmGhosts, aiVars, cycGhosts, wp, tax, sched, up, artVars,
                 consecutive_failures, streak, always_raises, visited>>

\* finally: db.close(), wp_client.close(); the cycle returns, or the
\* exception that escaped the loop goes on to the caller
EndCycle ==
  /\ cyc.pc = "finally"
  /\ cyc' = [cyc EXCEPT !.pc = "idle", !.n = @ + 1]
  /\ res' = [res EXCEPT !.db_closes = @ + 1, !.wp_closes = @ + 1]
  /\ UNCHANGED <<kmVars, kmGhosts, aiVars, cycGhosts, wp, tax, sched, up, artVars,
                 consecutive_failures, streak, always_raises, visited>>

\* an exception raised in the source loop outside the feed's try block (the
\* circuit check's Database calls, feed_config['category'], the feed
\* handler's own increment, an interrupt): it leaves the loop for the
\* finally block
SourceLoopRaises ==
  /\ cyc.pc \in {"loop", "articles"}
  /\ cyc' = [cyc EXCEPT !.pc = "finally", !.remaining = 0]
  /\ res' = [res EXCEPT !.escaped = TRUE]
  /\ UNCHANGED <<kmVars, kmGhosts, aiVars, cycGhosts, wp, tax, sched, up, artVars,
                 consecutive_failures, streak, always_raises, visited>>

NextCycle ==
  \/ \E s \in Sources : FeedBreaks(s)
  \/ StartCycle
  \/ SkipOpenCircuit
  \/ FetchRaises
  \/ NoNewArticles
  \/ FeedRequestFails
  \/ \E new_articles \in 1..MaxNewArticles : FoundNewArticles(new_articles)
  \/ \E outcome \in ArticleOutcomes : ProcessArticle(outcome)
  \/ ArticleLoopRaises
  \/ FinishSource
  \/ EndCycle

SpecCycle == Init /\ [][NextCycle]_vars

\* cycles with exceptions that escape the source loop; within
\* MaxArticleCycles cycles no circuit opens
StartCloseCycle == cyc.n < MaxArticleCycles /\ StartCycle

NextClose ==
  \/ \E s \in Sources : FeedBreaks(s)
  \/ StartCloseCycle
  \/ FetchRaises
  \/ NoNewArticles
  \/ FeedRequestFails
  \/ \E new_articles \in 1..MaxNewArticles : FoundNewArticles(new_articles)
  \/ \E outcome \in ArticleOutcomes : ProcessArticle(outcome)
  \/ ArticleLoopRaises
  \/ FinishSource
  \/ SourceLoopRaises
  \/ EndCycle

SpecClose == Init /\ [][NextClose]_vars

\* the cycles, remembering at each start which sources the cycle before
\* skipped
SkippedIn(log) ==
  {log[p].source : p \in {q \in 1..Len(log) : log[q].outcome = "circuit_open"}}

StartCycleAfter ==
  /\ EnterCycle
  /\ skipped_before' = SkippedIn(visited)

NextSkips ==
  \/ StartCycleAfter
  \/ SkipOpenCircuit
  \/ FetchRaises
  \/ NoNewArticles
  \/ FeedRequestFails
  \/ \E new_articles \in 1..MaxNewArticles : FoundNewArticles(new_articles)
  \/ \E outcome \in ArticleOutcomes : ProcessArticle(outcome)
  \/ ArticleLoopRaises
  \/ FinishSource
  \/ EndCycle

SpecSkips == Init /\ [][NextSkips]_vars

(***************************************************************************)
(* The article loop of run_pipeline_cycle, one article at a time.  The     *)
(* Database (app/store.py) keeps a status for every feed item it has seen. *)
(***************************************************************************)
\* a string is the sequence of its words; `needle in text`
Contains(needle, text) ==
  \E p \in 1..(Len(text) - Len(needle) + 1) :
    SubSeq(text, p, p + Len(needle) - 1) = needle

\* `if "pool is exhausted" in reason`
PoolIsExhausted == <<"pool", "is", "exhausted">>

\* str(e) of the exceptions generate_content raises
LastErrors == {<<"429", "Resource", "has", "been", "exhausted">>}

\* f"All available API keys failed. Last error: {last_error}"
AllKeysFailedReason(last_error) ==
  <<"All", "available", "API", "keys", "failed.", "Last", "error:">> \o last_error

\* parsed_data["erro"], the AI's own words for rejecting the content
Rejections == {<<"conteudo", "fora", "do", "escopo">>, <<>>}

\* the second value rewrite_content returns with None
RewriteFailureReasons ==
  {AllKeysFailedReason(e) : e \in LastErrors} \cup Rejections

\* str(e) of an exception raised inside the article's try block
ExceptionTexts == {<<"All", "API", "keys", "have", "failed.">>}

\* `reason = failure_reason or "AI processing failed"`
ReasonOr(failure_reason) ==
  IF failure_reason = <<>> THEN <<"AI", "processing", "failed">> ELSE failure_reason

\* Database.update_article_status, Database.save_processed_post
update_article_status(table, id, status) == [table EXCEPT ![id] = status]

save_processed_post(table, id) == [table EXCEPT ![id] = "PUBLISHED"]

\* Database.filter_new_articles: the items not seen before, in feed order;
\* they are entered as NEW
filter_new_articles(feed_items) ==
  SelectSeq(feed_items, LAMBDA a : article_status[a] = "ABSENT")

EnterNew(table, new_articles) ==
  [a \in DOMAIN table |->
     IF \E p \in 1..Len(new_articles) : new_articles[p] = a THEN "NEW" ELSE table[a]]

\* the feed items there are all come from the first source; the feeds of
\* the other sources are empty
ItemsOf(source) == IF source = PIPELINE_ORDER[1] THEN DOMAIN article_status ELSE {}

\* what read_feeds can return for a source: items of its feed, each once
FeedInputs(source) ==
  {q \in UNION {[1..n -> ItemsOf(source)] : n \in 0..Cardinality(ItemsOf(source))} :
     \A p1, p2 \in 1..Len(q) : p1 # p2 => q[p1] # q[p2]}

\* a URL as urlparse splits it: the scheme, the labels of the host and the
\* segments of the path; NoUrl is an item with no url, link or id
NoUrl == [scheme |-> "", host |-> <<>>, path |-> <<>>]

Urls ==
  {NoUrl,
   [scheme |-> "ftp", host |-> <<"www", "estadao", "com", "br">>, path |-> <<"politica", "x">>],
   [scheme |-> "https", host |-> <<"www", "estadao", "com", "br">>, path |-> <<"politica", "x">>],
   [scheme |-> "https", host |-> <<"www", "uol", "com", "br">>, path |-> <<"esporte", "x">>],
   [scheme |-> "https", host |-> <<"ge", "globo", "com">>, path |-> <<"volei", "x">>]}

\* None unless the scheme is http or https
get_article_url(url) == IF url.scheme \in {"http", "https"} THEN url ELSE NoUrl

DOMAIN_DENYLIST ==
  {<<"uol", "com", "br">>, <<"imguol", "com", "br">>, <<"conteudo", "imguol", "com", "br">>}

\* (mutant: the host has to be a denylist entry itself)
is_blocked_url_ExactHost(url) ==
  IF url = NoUrl THEN FALSE ELSE \E d \in DOMAIN_DENYLIST : d = url.host

\* `any(d in host for d in DOMAIN_DENYLIST)`
is_blocked_url(url) ==
  IF url = NoUrl THEN FALSE ELSE \E d \in DOMAIN_DENYLIST : Contains(d, url.host)

\* the rules there are, by source key; path_must_include as pairs of a
\* domain and the segment its paths must have
SOURCE_URL_RULES ==
  [lance_futebol |->
     [allow_domains |-> {<<"lance", "com", "br">>, <<"ge", "globo", "com">>,
                         <<"uol", "com", "br">>},
      path_must_include |-> {<<<<"uol", "com", "br">>, <<"esporte">>>>}],
   globo_futebol |->
     [allow_domains |-> {<<"ge", "globo", "com">>, <<"g1", "globo", "com">>},
      path_must_include |-> {<<<<"ge", "globo", "com">>, <<"futebol">>>>}]]

\* a source without rules allows every URL
is_allowed_by_source_rules(source_key, url) ==
  IF source_key \notin DOMAIN SOURCE_URL_RULES
  THEN TRUE
  ELSE LET rules == SOURCE_URL_RULES[source_key]
       IN IF ~\E d \in rules.allow_domains : Contains(d, url.host)
          THEN FALSE
          ELSE ~\E r \in rules.path_must_include :
                  Contains(r[1], url.host) /\ ~Contains(r[2], url.path)

\* the three checks before PROCESSING, in the order of the code
UrlGate(source, url) ==
  LET article_url_to_process == get_article_url(url)
  IN IF article_url_to_process = NoUrl THEN "missing_url"
     ELSE IF is_blocked_url(article_url_to_process) THEN "blocked_domain"
     ELSE IF ~is_allowed_by_source_rules(source, article_url_to_process)
          THEN "source_rules"
     ELSE "pass"

\* the ways through the loop body for one article
ArticlePaths ==
  {"missing_url", "blocked_domain", "source_rules", "extraction_failed",
   "rewrite_failed", "missing_fields", "exception", "publish_failed",
   "published", "published_then_exception"}

Write(status, reason) == [status |-> status, reason |-> reason]

\* (mutant: the article's exception handler records nothing)
BodyWritesUncaught(path, text) ==
  CASE path = "missing_url" ->
         <<Write("FAILED", <<"Missing/invalid", "URL">>)>>
    [] path = "blocked_domain" ->
         <<Write("SKIPPED", <<"Blocked", "domain">>)>>
    [] path = "source_rules" ->
         <<Write("SKIPPED", <<"Filtered", "by", "source", "rules">>)>>
    [] path = "extraction_failed" ->
         <<Write("PROCESSING", <<>>), Write("FAILED", <<"Extraction", "failed">>)>>
    [] path = "rewrite_failed" ->
         <<Write("PROCESSING", <<>>), Write("FAILED", ReasonOr(text))>>
    [] path = "missing_fields" ->
         <<Write("PROCESSING", <<>>),
           Write("FAILED", <<"AI", "output", "missing", "required", "fields">>)>>
    [] path = "exception" ->
         <<Write("PROCESSING", <<>>)>>
    [] path = "publish_failed" ->
         <<Write("PROCESSING", <<>>),
           Write("FAILED", <<"WordPress", "publishing", "failed">>)>>
    [] path = "published" ->
         <<Write("PROCESSING", <<>>), Write("PUBLISHED", <<>>)>>
    [] path = "published_then_exception" ->
         <<Write("PROCESSING", <<>>), Write("PUBLISHED", <<>>)>>

\* the status writes of one way through the body, in order
BodyWrites(path, text) ==
  CASE path = "missing_url" ->
         <<Write("FAILED", <<"Missing/invalid", "URL">>)>>
    [] path = "blocked_domain" ->
         <<Write("SKIPPED", <<"Blocked", "domain">>)>>
    [] path = "source_rules" ->
         <<Write("SKIPPED", <<"Filtered", "by", "source", "rules">>)>>
    [] path = "extraction_failed" ->
         <<Write("PROCESSING", <<>>), Write("FAILED", <<"Extraction", "failed">>)>>
    [] path = "rewrite_failed" ->
         <<Write("PROCESSING", <<>>), Write("FAILED", ReasonOr(text))>>
    [] path = "missing_fields" ->
         <<Write("PROCESSING", <<>>),
           Write("FAILED", <<"AI", "output", "missing", "required", "fields">>)>>
    [] path = "exception" ->
         <<Write("PROCESSING", <<>>), Write("FAILED", text)>>
    [] path = "publish_failed" ->
         <<Write("PROCESSING", <<>>),
           Write("FAILED", <<"WordPress", "publishing", "failed">>)>>
    [] path = "published" ->
         <<Write("PROCESSING", <<>>), Write("PUBLISHED", <<>>)>>
    [] path = "published_then_exception" ->
         <<Write("PROCESSING", <<>>), Write("PUBLISHED", <<>>), Write("FAILED", text)>>

\* the texts a way through the body can carry
PathTexts(path) ==
  CASE path = "rewrite_failed" -> RewriteFailureReasons
    [] path \in {"exception", "published_then_exception"} -> ExceptionTexts
    [] OTHER -> {<<>>}

\* one article of the batch as the loop body left it
Gone(id, path, writes, pool_exhausted, slept, steps, url) ==
  [id |-> id, path |-> path, writes |-> writes,
   pool_exhausted |-> pool_exhausted, slept |-> slept, steps |-> steps,
   url |-> url]

\* the per-article delay is at the end of the body: a `continue` and the
\* article's exception handler pass it by
PerArticleDelay(path) == path \in {"published", "publish_failed"}

article_db_id == batch[Len(batch) - cyc.remaining + 1]

\* (mutant: the article loop runs over feed_items, the filter's result is unused)
FetchFeedUnfiltered(feed_items) ==
  /\ cyc.pc = "loop"
  /\ ~IsOpen(get_consecutive_failures(source_id))
  /\ source_id \notin always_raises
  /\ feed_items \in FeedInputs(source_id)
  /\ LET new_articles == filter_new_articles(feed_items)
         slice == SubSeq(feed_items, 1, Min(Len(feed_items), max_articles_per_feed))
     IN /\ article_status' = EnterNew(article_status, new_articles)
        /\ filtered' = new_articles
        /\ batch' = slice
        /\ gone' = Gone(0, "none", <<>>, FALSE, FALSE, <<>>, NoUrl)
        /\ IF feed_items = <<>>
           THEN /\ visited' = Append(visited, Visit(source_id, "no_new_articles", FALSE))
                /\ cyc' = [cyc EXCEPT !.pc = NextSource(cyc.i).pc,
                                      !.i = NextSource(cyc.i).i]
           ELSE /\ visited' = Append(visited, Visit(source_id, "fetched", FALSE))
                /\ cyc' = [cyc EXCEPT !.pc = "articles", !.remaining = Len(slice)]
  /\ UNCHANGED <<kmVars, kmGhosts, aiVars, cycGhosts, libVars, consecutive_failures, streak,
                 always_raises>>

\* (mutant: the article loop runs over all of new_articles)
FetchFeedUncapped(feed_items) ==
  /\ cyc.pc = "loop"
  /\ ~IsOpen(get_consecutive_failures(source_id))
  /\ source_id \notin always_raises
  /\ feed_items \in FeedInputs(source_id)
  /\ LET new_articles == filter_new_articles(feed_items)
         slice == new_articles
     IN /\ article_status' = EnterNew(article_status, new_articles)
        /\ filtered' = new_articles
        /\ batch' = slice
        /\ gone' = Gone(0, "none", <<>>, FALSE, FALSE, <<>>, NoUrl)
        /\ IF new_articles = <<>>
           THEN /\ visited' = Append(visited, Visit(source_id, "no_new_articles", FALSE))
                /\ cyc' = [cyc EXCEPT !.pc = NextSource(cyc.i).pc,
                                      !.i = NextSource(cyc.i).i]
           ELSE /\ visited' = Append(visited, Visit(source_id, "fetched", FALSE))
                /\ cyc' = [cyc EXCEPT !.pc = "articles", !.remaining = Len(slice)]
  /\ UNCHANGED <<kmVars, kmGhosts, aiVars, cycGhosts, libVars, consecutive_failures, streak,
                 always_raises>>

\* read_feeds and filter_new_articles return: the new items are entered in
\* the Database; with none the turn ends by `continue`, else the article
\* loop starts on new_articles[:max_articles_per_feed]
FetchFeed(feed_items) ==
  /\ cyc.pc = "loop"
  /\ ~IsOpen(get_consecutive_failures(source_id))
  /\ source_id \notin always_raises
  /\ feed_items \in FeedInputs(source_id)
  /\ LET new_articles == filter_new_articles(feed_items)
         slice == SubSeq(new_articles, 1, Min(Len(new_articles), max_articles_per_feed))
     IN /\ article_status' = EnterNew(article_status, new_articles)
        /\ filtered' = new_articles
        /\ batch' = slice
        /\ gone' = Gone(0, "none", <<>>, FALSE, FALSE, <<>>, NoUrl)
        /\ IF new_articles = <<>>
           THEN /\ visited' = Append(visited, Visit(source_id, "no_new_articles", FALSE))
                /\ cyc' = [cyc EXCEPT !.pc = NextSource(cyc.i).pc,
                                      !.i = NextSource(cyc.i).i]
           ELSE /\ visited' = Append(visited, Visit(source_id, "fetched", FALSE))
                /\ cyc' = [cyc EXCEPT !.pc = "articles", !.remaining = Len(slice)]
  /\ UNCHANGED <<kmVars, kmGhosts, aiVars, cycGhosts, libVars, consecutive_failures, streak,
                 always_raises>>

\* `return None`
None == 0

PostIds == 1..MaxPostId

\* one call of the loop body: a status write, or a call of the extractor,
\* the AI processor or the WordPress client, with what it returned
Step(stage, result, id) == [stage |-> stage, result |-> result, id |-> id]

\* the calls after which the article's handler can be entered
RaisePoints(path) ==
  IF path = "exception"
  THEN {"extract", "rewrite_content", "update_media_details", "create_post"}
  ELSE {"nowhere"}

\* what create_post returns on the ways through the body that get an id
ReturnedIds(path) ==
  IF path \in {"published", "published_then_exception"} THEN PostIds ELSE {None}

\* the calls made after PROCESSING was written, up to the one that raised
StepsTo(raised_at) ==
  CASE raised_at = "extract" ->
         <<Step("extract", "raises", None)>>
    [] raised_at = "rewrite_content" ->
         <<Step("extract", "content", None), Step("rewrite_content", "raises", None)>>
    [] raised_at = "update_media_details" ->
         <<Step("extract", "content", None), Step("rewrite_content", "payload", None),
           Step("upload_media_from_url", "media", None),
           Step("update_media_details", "raises", None)>>
    [] raised_at = "create_post" ->
         <<Step("extract", "content", None), Step("rewrite_content", "payload", None),
           Step("create_post", "raises", None)>>

\* (mutant: no `continue` after "AI output missing required fields")
BodyStepsNoFieldCheck(path, raised_at, wp_post_id) ==
  LET status(s) == Step("update_article_status", s, None)
      staged == <<status("PROCESSING"), Step("extract", "content", None),
                  Step("rewrite_content", "payload", None)>>
  IN CASE path = "missing_url" -> <<status("FAILED")>>
       [] path \in {"blocked_domain", "source_rules"} -> <<status("SKIPPED")>>
       [] path = "extraction_failed" ->
            <<status("PROCESSING"), Step("extract", "empty", None), status("FAILED")>>
       [] path = "rewrite_failed" ->
            <<status("PROCESSING"), Step("extract", "content", None),
              Step("rewrite_content", "none", None), status("FAILED")>>
       [] path = "missing_fields" ->
            <<status("PROCESSING"), Step("extract", "content", None),
              Step("rewrite_content", "incomplete", None), status("FAILED"),
              Step("create_post", "none", None), status("FAILED")>>
       [] path = "exception" ->
            <<status("PROCESSING")>> \o StepsTo(raised_at) \o <<status("FAILED")>>
       [] path = "publish_failed" ->
            staged \o <<Step("create_post", "none", None), status("FAILED")>>
       [] path = "published" ->
            staged \o <<Step("create_post", "id", wp_post_id),
                        Step("save_processed_post", "PUBLISHED", wp_post_id),
                        Step("update_yoast_meta", "none", wp_post_id)>>
       [] path = "published_then_exception" ->
            staged \o <<Step("create_post", "id", wp_post_id),
                        Step("save_processed_post", "PUBLISHED", wp_post_id),
                        Step("update_yoast_meta", "raises", wp_post_id),
                        status("FAILED")>>

\* the calls of one way through the body, in the order of the code
BodySteps(path, raised_at, wp_post_id) ==
  LET status(s) == Step("update_article_status", s, None)
      staged == <<status("PROCESSING"), Step("extract", "content", None),
                  Step("rewrite_content", "payload", None)>>
  IN CASE path = "missing_url" -> <<status("FAILED")>>
       [] path \in {"blocked_domain", "source_rules"} -> <<status("SKIPPED")>>
       [] path = "extraction_failed" ->
            <<status("PROCESSING"), Step("extract", "empty", None), status("FAILED")>>
       [] path = "rewrite_failed" ->
            <<status("PROCESSING"), Step("extract", "content", None),
              Step("rewrite_content", "none", None), status("FAILED")>>
       [] path = "missing_fields" ->
            <<status("PROCESSING"), Step("extract", "content", None),
              Step("rewrite_content", "incomplete", None), status("FAILED")>>
       [] path = "exception" ->
            <<status("PROCESSING")>> \o StepsTo(raised_at) \o <<status("FAILED")>>
       [] path = "publish_failed" ->
            staged \o <<Step("create_post", "none", None), status("FAILED")>>
       [] path = "published" ->
            staged \o <<Step("create_post", "id", wp_post_id),
                        Step("save_processed_post", "PUBLISHED", wp_post_id),
                        Step("update_yoast_meta", "none", wp_post_id)>>
       [] path = "published_then_exception" ->
            staged \o <<Step("create_post", "id", wp_post_id),
                        Step("save_processed_post", "PUBLISHED", wp_post_id),
                        Step("update_yoast_meta", "raises", wp_post_id),
                        status("FAILED")>>

\* (mutant: a failed extraction ends the batch, `break` for `continue`)
ArticlesLeftBreak(path, remaining) ==
  IF path = "extraction_failed" THEN 0 ELSE remaining - 1

\* the articles of the batch still to come after this one: every way through
\* the body, `continue` and the exception handler included, ends the
\* iteration and the for loop takes the next article
ArticlesLeft(path, remaining) == remaining - 1

\* the last status written
FinalStatus(writes) == writes[Len(writes)].status

\* the loop body for the article at hand, from article_db_id to the
\* per-article delay or to the end of the article's exception handler
ArticleBody(path, text) ==
  /\ cyc.pc = "articles"
  /\ cyc.remaining > 0
  /\ text \in PathTexts(path)
  /\ LET writes == BodyWrites(path, text)
     IN /\ article_status' =
             update_article_status(article_status, article_db_id, FinalStatus(writes))
        /\ \E raised_at \in RaisePoints(path), wp_post_id \in ReturnedIds(path),
              url \in Urls :
             /\ IF UrlGate(source_id, url) = "pass"
                THEN path \notin {"missing_url", "blocked_domain", "source_rules"}
                ELSE path = UrlGate(source_id, url)
             /\ gone' =
                  Gone(article_db_id, path, writes,
                       path = "rewrite_failed" /\ Contains(PoolIsExhausted, ReasonOr(text)),
                       PerArticleDelay(path),
                       BodySteps(path, raised_at, wp_post_id), url)
  /\ cyc' = [cyc EXCEPT !.remaining = ArticlesLeft(path, @),
                        !.processed_articles_in_cycle =
                           IF path = "published" THEN @ + 1 ELSE @]
  /\ UNCHANGED <<kmVars, kmGhosts, aiVars, cycGhosts, libVars, consecutive_failures, streak,
                 always_raises, visited, filtered, batch>>

StartArticleCycle == cyc.n < MaxArticleCycles /\ StartCycle

NextArticles ==
  \/ StartArticleCycle
  \/ \E feed_items \in FeedInputs(PIPELINE_ORDER[1]) : FetchFeed(feed_items)
  \/ \E path \in ArticlePaths : \E text \in PathTexts(path) : ArticleBody(path, text)
  \/ ArticleLoopRaises
  \/ FinishSource
  \/ EndCycle

SpecArticles == Init /\ [][NextArticles]_vars

(***************************************************************************)
(* One cycle over a feed with more items than max_articles_per_feed.       *)
(***************************************************************************)
BatchInit == KMInit /\ GhostInit /\ AINone /\ CycleInitFor(1..MaxBatchItems) /\ LibInit

StartBatchCycle == cyc.n = 0 /\ StartCycle

NextBatch ==
  \/ StartBatchCycle
  \/ /\ cyc.pc = "loop"
     /\ \E feed_items \in FeedInputs(source_id) : FetchFeed(feed_items)
  \/ \E path \in ArticlePaths : \E text \in PathTexts(path) : ArticleBody(path, text)
  \/ FinishSource
  \/ EndCycle

SpecBatch == BatchInit /\ [][NextBatch]_vars

(***************************************************************************)
(* WordPressClient.create_post.  A payload is modelled by what the claims  *)
(* look at: whether it has a 'meta' field, how many tag names it carries   *)
(* and whether a 'status' was given.                                       *)
(***************************************************************************)
Payloads == [meta : BOOLEAN, tags : 0..MaxTags, status : {"absent", "draft"}]

\* what WordPress does with one POST to /posts: it creates the post and
\* answers with its id, it answers with an error status (response.ok is
\* false), or no answer comes (timeout, connection error)
WPResponses ==
  [kind : {"created"}, id : PostIds]
    \cup {[kind |-> "rejected", id |-> None], [kind |-> "no_response", id |-> None]}

\* the answers WordPress would give to a first and to a second request
ResponseSeqs == [1..2 -> WPResponses]

\* the JSON body of a request: the payload with its tag names resolved to
\* `resolved` ids by _ensure_tag_ids, and status 'publish' unless given
RequestBody(payload, resolved) ==
  [meta |-> payload.meta, tags |-> resolved,
   status |-> IF payload.status = "absent" THEN "publish" ELSE payload.status]

\* create_post: one session.post; an answer that is not ok makes
\* raise_for_status raise, and every RequestException is caught: None
create_post(payload, resolved, responses) ==
  [payload |-> payload,
   requests |-> <<RequestBody(payload, resolved)>>,
   result |-> IF responses[1].kind = "created" THEN responses[1].id ELSE None,
   called |-> TRUE]

\* a caller creates a post; of the payload's tag names `resolved` are found
\* or created
CreatePost(payload, resolved, responses) ==
  /\ resolved \in 0..payload.tags
  /\ wp' = create_post(payload, resolved, responses)
  /\ UNCHANGED <<kmVars, kmGhosts, aiVars, cycVars, cycGhosts, artVars, tax, res, sched, up>>

NextCreatePost ==
  \E payload \in Payloads, resolved \in 0..MaxTags, responses \in ResponseSeqs :
     CreatePost(payload, resolved, responses)

SpecCreatePost == Init /\ [][NextCreatePost]_vars

(***************************************************************************)
(* CategoryManager.assign_categories.  A slug is a number; WordPress gives *)
(* the category of slug k the id CategoryId(k), one id per category.       *)
(***************************************************************************)
MAX_SPECIFIC_CATEGORIES == 3

Slugs == 1..MaxSlugs

\* normalize_slug(DEFAULT_PARENT_CATEGORY_NAME)
default_parent_slug == 1

\* category['id'] of the category ensure_category returns for a slug
CategoryId(slug) == 100 + slug

\* list(a_set): the elements once each, in some order
RECURSIVE ListOf(_)
ListOf(ids) ==
  IF ids = {} THEN <<>>
  ELSE LET x == CHOOSE y \in ids : \A z \in ids : y <= z
       IN <<x>> \o ListOf(ids \ {x})

\* what a slug of prioritized_slugs comes to in the loop: its category is
\* found or created, ensure_category returns None, or the slug is not in
\* all_taxonomy_data
SlugOutcomes == {"category", "no_category", "unknown_entity"}

AssignState(pc, found, todo, ids, default_ok, result) ==
  [pc |-> pc, found |-> found, todo |-> todo, final_category_ids |-> ids,
   default_ok |-> default_ok, result |-> result]

\* (mutant: `>` for `>=`, one category more is let in)
CapReachedLate(ids) == Cardinality(ids) > MAX_SPECIFIC_CATEGORIES + 1

\* `if len(final_category_ids) >= MAX_SPECIFIC_CATEGORIES + 1: break`
CapReached(ids) == Cardinality(ids) >= MAX_SPECIFIC_CATEGORIES + 1

\* assign_categories up to its loop: extract_entities finds `found` (every
\* entity found has score 1.0, so valid_entities is all of them), the
\* default parent category is ensured or not
AssignBegin(found, default_ok) ==
  /\ tax.pc \in {"idle", "done"}
  /\ tax' = IF ~default_ok
            THEN AssignState("done", found, {}, {}, FALSE, <<>>)
            ELSE IF found = {}
            THEN AssignState("done", found, {}, {CategoryId(default_parent_slug)}, TRUE,
                             ListOf({CategoryId(default_parent_slug)}))
            ELSE AssignState("loop", found, found, {CategoryId(default_parent_slug)},
                             TRUE, <<>>)
  /\ UNCHANGED <<kmVars, kmGhosts, aiVars, cycVars, cycGhosts, artVars, wp, res, sched, up>>

\* one iteration of `for slug in prioritized_slugs`
AssignStep(slug, outcome) ==
  /\ tax.pc = "loop"
  /\ slug \in tax.todo
  /\ ~CapReached(tax.final_category_ids)
  /\ tax' = [tax EXCEPT !.todo = @ \ {slug},
                        !.final_category_ids =
                           IF outcome = "category" THEN @ \cup {CategoryId(slug)} ELSE @]
  /\ UNCHANGED <<kmVars, kmGhosts, aiVars, cycVars, cycGhosts, artVars, wp, res, sched, up>>

\* the loop is over, by `break` or at the end of the list:
\* `return list(final_category_ids)`
AssignReturn ==
  /\ tax.pc = "loop"
  /\ tax.todo = {} \/ CapReached(tax.final_category_ids)
  /\ tax' = [tax EXCEPT !.pc = "done", !.result = ListOf(tax.final_category_ids)]
  /\ UNCHANGED <<kmVars, kmGhosts, aiVars, cycVars, cycGhosts, artVars, wp, res, sched, up>>

NextAssign ==
  \/ \E found \in SUBSET Slugs, default_ok \in BOOLEAN : AssignBegin(found, default_ok)
  \/ \E slug \in Slugs, outcome \in SlugOutcomes : AssignStep(slug, outcome)
  \/ AssignReturn

SpecAssign == Init /\ [][NextAssign]_vars

(***************************************************************************)
(* WordPressClient.upload_media_from_url.  One attempt downloads the image *)
(* and posts it to /media; what it comes to is one of AttemptOutcomes.     *)
(***************************************************************************)
\* the default of the parameter, which the pipeline's call leaves alone
max_attempts == 3

AttemptOutcomes ==
  {"ok", "download_timeout", "download_connection_error", "download_http_error",
   "upload_timeout", "upload_connection_error", "upload_http_error", "bad_json"}

\* `except (requests.Timeout, requests.ConnectionError)`
Retriable(outcome) ==
  outcome \in {"download_timeout", "download_connection_error",
               "upload_timeout", "upload_connection_error"}

Upload(pc, attempt, tried, result, slept) ==
  [pc |-> pc, attempt |-> attempt, tried |-> tried, result |-> result, slept |-> slept]

\* the call is made: last_err = None, the loop starts with attempt = 1
UploadBegin ==
  /\ up.pc \in {"idle", "done"}
  /\ up' = Upload("loop", 1, <<>>, "", 0)
  /\ UNCHANGED <<kmVars, kmGhosts, aiVars, cycVars, cycGhosts, artVars, wp, tax, res, sched>>

\* (mutant: no `except Exception`, an error that is not retried leaves the call)
UploadAttemptNarrowCatch(outcome) ==
  /\ up.pc = "loop"
  /\ LET tried == Append(up.tried, outcome)
     IN up' =
          IF outcome = "ok"
          THEN Upload("done", up.attempt, tried, "media", up.slept)
          ELSE IF Retriable(outcome)
          THEN IF up.attempt < max_attempts
               THEN Upload("loop", up.attempt + 1, tried, "", up.slept + 2 * up.attempt)
               ELSE Upload("done", up.attempt, tried, "None", up.slept + 2 * up.attempt)
          ELSE Upload("done", up.attempt, tried, "raised", up.slept)
  /\ UNCHANGED <<kmVars, kmGhosts, aiVars, cycVars, cycGhosts, artVars, wp, tax, res, sched>>

\* one turn of `for attempt in range(1, max_attempts + 1)`: success returns
\* the media; a timeout or connection error sleeps 2 * attempt and goes on
\* to the next attempt if there is one; any other exception breaks; after
\* the loop the call returns None
UploadAttempt(outcome) ==
  /\ up.pc = "loop"
  /\ LET tried == Append(up.tried, outcome)
     IN up' =
          IF outcome = "ok"
          THEN Upload("done", up.attempt, tried, "media", up.slept)
          ELSE IF Retriable(outcome)
          THEN IF up.attempt < max_attempts
               THEN Upload("loop", up.attempt + 1, tried, "", up.slept + 2 * up.attempt)
               ELSE Upload("done", up.attempt, tried, "None", up.slept + 2 * up.attempt)
          ELSE Upload("done", up.attempt, tried, "None", up.slept)
  /\ UNCHANGED <<kmVars, kmGhosts, aiVars, cycVars, cycGhosts, artVars, wp, tax, res, sched>>

NextUpload ==
  \/ UploadBegin
  \/ \E outcome \in AttemptOutcomes : UploadAttempt(outcome)

SpecUpload == Init /\ [][NextUpload]_vars

(***************************************************************************)
(* main() (src/app/main.py).  A cycle is what run_pipeline_cycle comes to  *)
(* for its caller: it returned, or an exception escaped it.                *)
(***************************************************************************)
CycleEndings == {"returned", "raised"}

Sched(pc, mode, due, cycles) == [pc |-> pc, mode |-> mode, due |-> due, cycles |-> cycles]

\* args are parsed and the database is initialized: with --once the single
\* cycle is next; without, the job is registered, first due after the
\* interval, and the loop is entered
MainStart(once) ==
  /\ sched.pc = "start"
  /\ sched' = IF once THEN Sched("once", "once", FALSE, <<>>)
              ELSE Sched("loop", "scheduled", FALSE, <<>>)
  /\ UNCHANGED <<kmVars, kmGhosts, aiVars, cycVars, cycGhosts, artVars, wp, tax, res, up>>

\* --once: try: run_pipeline_cycle(); except Exception: log; main returns
RunOnce(ending) ==
  /\ sched.pc = "once"
  /\ sched' = Sched("ended", "once", FALSE, Append(sched.cycles, ending))
  /\ UNCHANGED <<kmVars, kmGhosts, aiVars, cycVars, cycGhosts, artVars, wp, tax, res, up>>

\* the interval of the job runs out while the loop turns or backs off
IntervalElapses ==
  /\ sched.mode = "scheduled"
  /\ sched.pc \in {"loop", "backoff"}
  /\ ~sched.due
  /\ sched' = [sched EXCEPT !.due = TRUE]
  /\ UNCHANGED <<kmVars, kmGhosts, aiVars, cycVars, cycGhosts, artVars, wp, tax, res, up>>

\* (mutant: no `except Exception` around run_pending)
RunPendingUncaught(ending, still_due) ==
  /\ sched.pc = "loop"
  /\ sched.due
  /\ Len(sched.cycles) < MaxRuns
  /\ sched' = IF ending = "returned"
              THEN Sched("loop", "scheduled", FALSE, Append(sched.cycles, ending))
              ELSE Sched("ended", "scheduled", still_due, Append(sched.cycles, ending))
  /\ UNCHANGED <<kmVars, kmGhosts, aiVars, cycVars, cycGhosts, artVars, wp, tax, res, up>>

\* schedule.run_pending() with the job due: the cycle runs; when it
\* returns the job is due again an interval later, when it raises the
\* exception comes out of run_pending into `except Exception`, which logs
\* and sleeps 60 s; whether the job is then still due is the library's
\* business
RunPending(ending, still_due) ==
  /\ sched.pc = "loop"
  /\ sched.due
  /\ Len(sched.cycles) < MaxRuns
  /\ sched' = IF ending = "returned"
              THEN Sched("loop", "scheduled", FALSE, Append(sched.cycles, ending))
              ELSE Sched("backoff", "scheduled", still_due, Append(sched.cycles, ending))
  /\ UNCHANGED <<kmVars, kmGhosts, aiVars, cycVars, cycGhosts, artVars, wp, tax, res, up>>

\* time.sleep(60) of the handler is over: back to `while True`
BackoffDone ==
  /\ sched.pc = "backoff"
  /\ sched' = [sched EXCEPT !.pc = "loop"]
  /\ UNCHANGED <<kmVars, kmGhosts, aiVars, cycVars, cycGhosts, artVars, wp, tax, res, up>>

\* KeyboardInterrupt: in the try it is caught and breaks the loop, in the
\* handler's sleep it leaves main(); either way the process ends
Interrupt ==
  /\ sched.mode = "scheduled"
  /\ sched.pc \in {"loop", "backoff"}
  /\ sched' = [sched EXCEPT !.pc = "ended"]
  /\ UNCHANGED <<kmVars, kmGhosts, aiVars, cycVars, cycGhosts, artVars, wp, tax, res, up>>

NextMain ==
  \/ \E once \in BOOLEAN : MainStart(once)
  \/ \E ending \in CycleEndings : RunOnce(ending)
  \/ IntervalElapses
  \/ \E ending \in CycleEndings, still_due \in BOOLEAN : RunPending(ending, still_due)
  \/ BackoffDone
  \/ Interrupt

SpecMain == Init /\ [][NextMain]_vars

\* time passes and the interpreter goes on: the interval runs out, a due
\* job is run, a sleep ends; nothing makes the user interrupt
SpecMainFair ==
  /\ SpecMain
  /\ WF_vars(\E ending \in CycleEndings : RunOnce(ending))
  /\ WF_vars(IntervalElapses)
  /\ WF_vars(\E ending \in CycleEndings, still_due \in BOOLEAN : RunPending(ending, still_due))
  /\ WF_vars(BackoffDone)

(***************************************************************************)
(* Claims about the circuit breaker and the cycle.                         *)
(***************************************************************************)
\* this step decides the turn of source s: its visit is appended
TurnDecided(s) ==
  /\ Len(visited') = Len(visited) + 1
  /\ visited'[Len(visited')].source = s

CycleReturned == cyc.pc = "idle" /\ cyc.n > 0

\* C8 (SpecCycle): the circuit of a source is open exactly when its count
\* is >= 3.  The count is the number of increments since the last reset, a
\* source is skipped at its turn exactly when three increments have piled
\* up, and the one reset of the skip leaves the count 0 and the circuit
\* closed.
C8_CircuitOpenAtThree ==
  [][\A s \in Sources :
       /\ get_consecutive_failures(s) = streak[s]
       /\ TurnDecided(s) =>
            /\ (visited'[Len(visited')].outcome = "circuit_open") <=> (streak[s] >= 3)
            /\ visited'[Len(visited')].outcome = "circuit_open" =>
                 /\ consecutive_failures'[s] = 0
                 /\ streak'[s] = 0
                 /\ consecutive_failures'[s] < 3]_vars

C8_Witness ==
  /\ Len(visited) > 0
  /\ visited[Len(visited)].outcome = "circuit_open"
  /\ consecutive_failures[visited[Len(visited)].source] = 0

\* C9 as amended (SpecCycle): a source whose fetch raises on every call
\* gains exactly one count per cycle that fetches it; starting from 0 its
\* circuit is closed after one and after two cycles, open after the third,
\* and the fourth cycle skips the source and leaves the count 0.
C9_OpenAfterThreeCycles ==
  \A s \in always_raises :
    cyc.pc = "idle" =>
      /\ consecutive_failures[s] = cyc.n % 4
      /\ (consecutive_failures[s] >= 3) <=> (cyc.n % 4 = 3)

\* C9 as stated: after one cycle the circuit of such a source is open
C9_Original ==
  \A s \in always_raises :
    (cyc.pc = "idle" /\ cyc.n = 1) => consecutive_failures[s] >= 3

C9_Witness ==
  /\ cyc.pc = "idle"
  /\ cyc.n = 3
  /\ \E s \in always_raises : consecutive_failures[s] >= 3

\* C10 (SpecCycle): when a cycle has returned, every source that comes
\* after one whose turn ended in a feed-level exception has had its own
\* turn in that cycle, in the order of PIPELINE_ORDER.
C10_CycleNotAborted ==
  CycleReturned =>
    \A p \in 1..Len(visited) :
      visited[p].outcome = "feed_exception" =>
        \A q \in (p + 1)..Len(PIPELINE_ORDER) :
          /\ q <= Len(visited)
          /\ visited[q].source = PIPELINE_ORDER[q]
          /\ visited[q].outcome \in
               {"circuit_open", "feed_exception", "request_exception",
                "no_new_articles", "clean_pass"}

C10_Witness ==
  /\ CycleReturned
  /\ Len(visited) = Len(PIPELINE_ORDER)
  /\ \E p \in 1..(Len(visited) - 1) :
       /\ visited[p].outcome = "feed_exception"
       /\ visited[p + 1].outcome = "clean_pass"

\* C11 (SpecCycle): whenever fetching or parsing a source's feed fails at
\* its turn, a network error on the feed URL included, the counter of that
\* source goes up by exactly one in that step.
C11_FetchFailureIncrements ==
  [][\A s \in Sources :
       (/\ TurnDecided(s)
        /\ visited'[Len(visited')].outcome \in {"feed_exception", "request_exception"})
       => consecutive_failures'[s] = consecutive_failures[s] + 1]_vars

\* C12 (SpecCycle): after a turn that ended without a feed-level exception,
\* whether it found no new articles or went through its batch, the counter
\* of that source is 0.
C12_CleanPassResets ==
  (/\ Len(visited) > 0
   /\ visited[Len(visited)].outcome \in {"no_new_articles", "clean_pass"})
  => consecutive_failures[visited[Len(visited)].source] = 0

\* C13 (SpecSkips): a source whose circuit is open at the start of its turn
\* is skipped (no fetch, no article processing) and its counter is reset to
\* 0; a source skipped in one cycle is not skipped in the next one, where it
\* is fetched again.
C13_SkippedOnce ==
  [][\A s \in Sources :
       TurnDecided(s) =>
         /\ consecutive_failures[s] >= 3 =>
              /\ visited'[Len(visited')].outcome = "circuit_open"
              /\ consecutive_failures'[s] = 0
              /\ cyc'.pc # "articles"
              /\ cyc'.remaining = 0
         /\ s \in skipped_before =>
              visited'[Len(visited')].outcome \in
                {"feed_exception", "request_exception", "no_new_articles", "fetched"}]_vars

C13_Witness ==
  \E p \in 1..Len(visited) :
    /\ visited[p].source \in skipped_before
    /\ visited[p].outcome = "feed_exception"

\* the turn of source s ends in this step with one of the outcomes
TurnEnds(s, outcomes) ==
  /\ visited' # visited
  /\ Len(visited') > 0
  /\ visited'[Len(visited')].source = s
  /\ visited'[Len(visited')].outcome \in outcomes

\* C14 (SpecCycle): counters are never negative, and a counter changes only
\* by +1 when the turn of its source ends in a feed-level exception, or to
\* 0 when that turn ends as a clean pass or as a skip of the open circuit;
\* a step of the article loop that stays in the loop changes no counter.
C14_CounterChanges ==
  [][/\ \A s \in Sources :
          /\ consecutive_failures[s] >= 0
          /\ consecutive_failures'[s] >= 0
          /\ consecutive_failures'[s] # consecutive_failures[s] =>
               \/ /\ consecutive_failures'[s] = consecutive_failures[s] + 1
                  /\ TurnEnds(s, {"feed_exception"})
               \/ /\ consecutive_failures'[s] = 0
                  /\ TurnEnds(s, {"clean_pass", "circuit_open"})
     /\ (cyc.pc = "articles" /\ cyc'.pc = "articles") =>
          consecutive_failures' = consecutive_failures]_vars

C14_Witness ==
  /\ cyc.pc = "articles"
  /\ cyc.remaining = 0
  /\ consecutive_failures[source_id] > 0
  /\ \E p \in 1..Len(visited) : visited[p].outcome = "circuit_open"

(***************************************************************************)
(* Claims about the article loop.                                          *)
(***************************************************************************)
\* the loop body has run for an article in this step
BodyRan == gone' # gone /\ gone'.path # "none"

\* the reason recorded with the last status of the article gone through
RecordedReason(g) == g.writes[Len(g.writes)].reason

\* C15 (SpecArticles): when the rewrite fails because no usable credential
\* is left, the article is marked FAILED with a reason that tells of the
\* exhaustion, the orchestrator takes its pool-exhausted branch, and no
\* counter changes.
C15_PoolExhaustedRecognised ==
  [][(/\ BodyRan
      /\ gone'.path = "rewrite_failed"
      /\ \E e \in LastErrors : RecordedReason(gone') = AllKeysFailedReason(e))
     => /\ article_status'[gone'.id] = "FAILED"
        /\ gone'.pool_exhausted
        /\ consecutive_failures' = consecutive_failures]_vars

\* the part of C15 the code keeps: FAILED, with the reason rewrite_content
\* gave, and no counter changed
C15_FailedWithoutCounting ==
  [][(BodyRan /\ gone'.path = "rewrite_failed")
     => /\ article_status'[gone'.id] = "FAILED"
        /\ consecutive_failures' = consecutive_failures]_vars

\* the loop has gone on to the next article of the same batch, if there is
\* one: the source's turn is not over, and the article at hand is untouched
LoopGoesOn ==
  /\ cyc'.pc = "articles"
  /\ cyc'.i = cyc.i
  /\ cyc'.remaining = cyc.remaining - 1
  /\ visited' = visited
  /\ batch' = batch
  /\ cyc'.remaining > 0 =>
       /\ article_db_id' # gone'.id
       /\ article_status'[article_db_id'] = "NEW"

C17_StageExceptionCaught ==
  [][(BodyRan /\ gone'.path \in {"exception", "published_then_exception"})
     => /\ gone'.id = article_db_id
        /\ article_status'[gone'.id] = "FAILED"
        /\ RecordedReason(gone') \in ExceptionTexts
        /\ consecutive_failures' = consecutive_failures
        /\ LoopGoesOn]_vars

C17_Witness ==
  /\ gone.path = "exception"
  /\ cyc.pc = "articles"
  /\ cyc.remaining > 0
  /\ article_status[gone.id] = "FAILED"
  /\ article_status[article_db_id] = "NEW"

TerminalStatuses == {"PUBLISHED", "FAILED", "SKIPPED"}

\* the status before the k-th write of one way through the body
StatusBefore(writes, k) == IF k = 1 THEN "NEW" ELSE writes[k - 1].status

\* C18 (SpecArticles): a status only moves forward along NEW -> PROCESSING
\* -> {PUBLISHED, FAILED, SKIPPED}: every terminal status is written over
\* PROCESSING, and nothing is written over PUBLISHED.
C18_StatusMovesForward ==
  [][BodyRan
     => \A k \in 1..Len(gone'.writes) :
          /\ gone'.writes[k].status \in TerminalStatuses
               => StatusBefore(gone'.writes, k) = "PROCESSING"
          /\ StatusBefore(gone'.writes, k) # "PUBLISHED"]_vars

\* the part that holds: the body starts from a NEW article, and a status
\* other than NEW is never written over by a later turn or cycle
C18_SettledStaysSettled ==
  [][\A id \in Items :
       article_status[id] \notin {"ABSENT", "NEW"}
         => article_status'[id] = article_status[id]]_vars

\* the articles of the batch the loop has not reached yet
Pending == {batch[p] : p \in (Len(batch) - cyc.remaining + 1)..Len(batch)}

\* C19 (SpecArticles): an article PUBLISHED in an earlier cycle is left out
\* by filter_new_articles in every later cycle and its body never runs
\* again: the batch holds none, the body runs on NEW articles only, and an
\* article becomes NEW only when it is first seen, so none is published
\* twice.
C19_PublishedNotReprocessed ==
  [][/\ cyc'.pc = "articles"
          => \A a \in Pending' : article_status[a] # "PUBLISHED"
     /\ BodyRan => article_status[gone'.id] = "NEW"
     /\ \A a \in Items :
          (article_status'[a] = "NEW" /\ article_status[a] # "NEW")
             => article_status[a] = "ABSENT"]_vars

\* in the second cycle (one cycle is complete) the loop starts on a batch
\* that leaves out the article published before
C19_Witness ==
  /\ cyc.n = 1
  /\ cyc.pc = "articles"
  /\ gone.path = "none"
  /\ \E a \in Items : article_status[a] = "PUBLISHED" /\ a \notin Pending
  /\ \E a \in Pending : article_status[a] = "NEW"

(***************************************************************************)
(* Claims about a rewrite call without a usable credential.                *)
(***************************************************************************)
\* every key of the list has failed: _configure_model would raise
NoUsableCredential == current_key_index >= Len(api_keys)

\* C20 (SpecRewrite): when no usable credential is left, at the start of a
\* rewrite call or during it, the call issues no generation request: it
\* returns its failure at once.
C20_NoRequestWithoutCredential ==
  [][(rw.pc = "loop" /\ NoUsableCredential) => attempts' = attempts]_vars

\* the part that holds: when the last credential fails during a call, the
\* call ends there with a failure, no further request is made in it
C20_ExhaustedDuringCallReturns ==
  [][(rw.pc = "loop" /\ ~NoUsableCredential /\ NoUsableCredential')
     => /\ rw'.pc = "idle"
        /\ rw'.result \in {"All available API keys failed", "AllKeysFailedError"}
        /\ Len(attempts') = Len(attempts) + 1]_vars

(***************************************************************************)
(* Claims about how a rewrite call ends.                                   *)
(***************************************************************************)
\* a rewrite_content call that made a request has ended
RewriteEnded == rw.pc = "idle" /\ attempts # <<>>

ReturnedPayload == rw.result = "success"

\* (None, parsed_data["erro"]): the AI answered with a rejection
ReturnedRejection == rw.result = "erro"

\* the final reason, or the AllKeysFailedError of _configure_model, with
\* every key of the list passed
EndedExhausted ==
  /\ rw.result \in {"All available API keys failed", "AllKeysFailedError"}
  /\ NoUsableCredential

ReportedFailure(n, is_permanent) ==
  \E m \in CallsOf("report_failure") :
    /\ km_calls[m].key = attempts[n].key
    /\ km_calls[m].is_permanent = is_permanent

\* C22 (SpecRewrite): a quota error or another transient error puts the
\* key that was used on a transient cooldown, an invalid credential
\* disables it permanently, and after any outcome that is not a success
\* the loop goes on with the next key.
C22_FailureClassified ==
  \A n \in 1..Len(attempts) :
    /\ attempts[n].outcome \in {"quota", "other"} => ReportedFailure(n, FALSE)
    /\ attempts[n].outcome = "invalid_key" => ReportedFailure(n, TRUE)
    /\ (attempts[n].outcome # "success" /\ n < Len(api_keys) /\ rw.pc = "idle"
          /\ rw.result # "AllKeysFailedError")
         => n < Len(attempts)

\* the part that holds: after an exception the next request of the call is
\* made with a later key of the list, whatever the exception was
C22_ExceptionFailsOver ==
  \A n \in 1..Len(attempts) :
    (Raises(attempts[n].outcome) /\ n < Len(attempts))
       => attempts[n + 1].key > attempts[n].key

(***************************************************************************)
(* Claims about the category of the credentials a rewrite uses.            *)
(***************************************************************************)
\* the category under which key p of self.api_keys is configured
CategoryOfKey(p) == api_keys[p + 1][1]

\* C23 (SpecRewrite): a rewrite for an article of category c sends its
\* generation requests only with credentials configured for c.
C23_OwnCategoryOnly ==
  \A n \in 1..Len(attempts) : CategoryOfKey(attempts[n].key) = rw.category

(***************************************************************************)
(* Claims about credential state from one cycle to the next.               *)
(***************************************************************************)
\* run_pipeline_cycle starts: it builds its AIProcessor
CycleBuildsProcessor == \E failures \in 0..MaxKeys : NewAIProcessor(failures)

\* the keys whose request failed with an invalid credential in the call
\* just ended
InvalidKeys ==
  {attempts[n].key : n \in {m \in 1..Len(attempts) : attempts[m].outcome = "invalid_key"}}

\* C24 (SpecRewrite): a credential disabled during one cycle is still
\* excluded when the next cycle starts: the start of a cycle does not
\* clear the failure state, the keys passed over stay passed over.
C24_FailureOutlivesCycle ==
  [][CycleBuildsProcessor
     => /\ model_key' \notin InvalidKeys
        /\ current_key_index' >= current_key_index]_vars

(***************************************************************************)
(* Claims about a category without credentials.                            *)
(***************************************************************************)
\* C25 (Spec): a category without credentials is turned down when the
\* KeyManager is constructed, so get_next_available_key is never reached
\* for such a category once the KeyManager exists.
C25_NoCallWithoutCredentials ==
  km_ret.op = "get_next_available_key" => ~NoCategoryKeys(km_ret.category)

(***************************************************************************)
(* Claims about the size of a batch.                                       *)
(***************************************************************************)
\* the articles of the batch the loop body has run for
Entered == {batch[p] : p \in 1..(Len(batch) - cyc.remaining)}

\* C26 (SpecBatch): in one turn of a source at most max_articles_per_feed
\* articles enter the loop body, and they are the first ones of the list
\* filter_new_articles returned, in its order; the items after them stay
\* NEW.
C26_BatchCapped ==
  cyc.pc = "articles" =>
    /\ Len(batch) = Min(Len(filtered), max_articles_per_feed)
    /\ batch = SubSeq(filtered, 1, Len(batch))
    /\ Cardinality(Entered) <= max_articles_per_feed
    /\ \A p \in 1..Len(filtered) :
         article_status[filtered[p]] # "NEW" => filtered[p] \in Entered
    /\ \A a \in Entered : article_status[a] # "NEW"

\* the filter returned more than the cap, the batch is done and the items
\* after the cap are untouched
C26_Witness ==
  /\ cyc.pc = "articles"
  /\ cyc.remaining = 0
  /\ Len(filtered) > max_articles_per_feed
  /\ Cardinality(Entered) = max_articles_per_feed
  /\ article_status[filtered[Len(filtered)]] = "NEW"

(***************************************************************************)
(* Claims about the delays.                                                *)
(***************************************************************************)
\* C27 (SpecArticles): after every article the loop body ran for, whatever
\* its outcome, the per-article delay is performed before the next article
\* starts.
C27_DelayAfterEveryArticle ==
  [][BodyRan => gone'.slept]_vars

\* the part that holds: the delay follows the attempt to publish, whether
\* WordPress took the post or not
C27_DelayAfterPublishAttempt ==
  [][(BodyRan /\ gone'.path \in {"published", "publish_failed"}) => gone'.slept]_vars

\* the turn at position p of the cycle's record is over
TurnOver(p) == visited[p].outcome # "fetched"

\* C28 (SpecCycle): between two consecutive sources of the order the
\* per-feed delay is performed, whatever happened to the earlier one, and
\* it is not performed after the last source.
C28_DelayBetweenSources ==
  \A p \in 1..Len(visited) :
    TurnOver(p) => (visited[p].slept <=> p < Len(PIPELINE_ORDER))

\* the part that holds: no delay after the last source, and a delay after
\* an earlier source whose article loop ran or whose turn raised
C28_DelayAfterWork ==
  \A p \in 1..Len(visited) :
    /\ p = Len(PIPELINE_ORDER) => ~visited[p].slept
    /\ (p < Len(PIPELINE_ORDER) /\ visited[p].outcome \in {"clean_pass", "feed_exception"})
         => visited[p].slept

(***************************************************************************)
(* Claims about WordPressClient.create_post.                               *)
(***************************************************************************)
\* the answers of the call just made: the model keeps of them what the
\* call returned, so the claim is stated per step, over the call's inputs
RetriedWithoutMeta(payload, resolved, responses) ==
  /\ Len(wp'.requests) = 2
  /\ wp'.requests[1] = RequestBody(payload, resolved)
  /\ wp'.requests[2] = [RequestBody(payload, resolved) EXCEPT !.meta = FALSE]
  /\ wp'.result = responses[2].id

\* C29 (SpecCreatePost): when WordPress rejects the first request for a
\* payload that carries meta data, create_post sends a second request for
\* the same post without the meta field and returns the id of the post that
\* second request created: two requests in all.
C29_RetryWithoutMeta ==
  [][\A payload \in Payloads, resolved \in 0..MaxTags, responses \in ResponseSeqs :
       (/\ CreatePost(payload, resolved, responses)
        /\ payload.meta
        /\ responses[1].kind = "rejected"
        /\ responses[2].kind = "created")
         => RetriedWithoutMeta(payload, resolved, responses)]_vars

\* the part that holds: one request per call, and the id WordPress gave to
\* it or None
C29_OneRequest ==
  wp.called =>
    /\ Len(wp.requests) = 1
    /\ wp.result \in PostIds \cup {None}

(***************************************************************************)
(* Claims about CategoryManager.assign_categories.                         *)
(***************************************************************************)
Returned == {tax.result[p] : p \in 1..Len(tax.result)}

\* C30 (SpecAssign): assign_categories returns the default parent
\* category's id and at most 3 ids of specific categories, each id once;
\* with no entity found it returns the default id alone, and when the
\* default category cannot be ensured it returns the empty list.
C30_DefaultPlusThree ==
  tax.pc = "done" =>
    /\ Cardinality(Returned) = Len(tax.result)
    /\ ~tax.default_ok => tax.result = <<>>
    /\ tax.default_ok =>
         /\ CategoryId(default_parent_slug) \in Returned
         /\ Cardinality(Returned \ {CategoryId(default_parent_slug)}) <= 3
         /\ Len(tax.result) <= 4
         /\ Returned \subseteq {CategoryId(k) : k \in tax.found \cup {default_parent_slug}}
    /\ (tax.default_ok /\ tax.found = {})
         => tax.result = <<CategoryId(default_parent_slug)>>

\* more than three entities were found and had their categories: the call
\* returned four ids and left entities out
C30_Witness ==
  /\ tax.pc = "done"
  /\ Cardinality(tax.found \ {default_parent_slug}) > 3
  /\ Len(tax.result) = 4
  /\ tax.todo # {}

(***************************************************************************)
(* Claims about the scan of get_next_available_key.                        *)
(***************************************************************************)
\* the d-th position of the circular order that starts at `start`
Position(category, start, d) == (start + d) % keys_by_category[category]

\* C31 (Spec): get_next_available_key returns the first selectable index
\* in circular order from (last_used_index + 1) mod N, looking at no more
\* than N positions, and sets last_used_index to the index it returns; the
\* cursor stays within -1..N-1.
C31_FirstInCircularOrder ==
  [][\A category \in ConfiguredCategories :
       CallGetNextAvailableKey(category) =>
         LET N == keys_by_category[category]
             start == (last_used_index[category] + 1) % N
             r == km_ret'.result
         IN /\ km_ret'.start_index = start
            /\ r # NoKey =>
                 \E d \in 0..(N - 1) :
                   /\ r = Position(category, start, d)
                   /\ Selectable(category, r)
                   /\ \A e \in 0..(d - 1) : ~Selectable(category, Position(category, start, e))
                   /\ last_used_index'[category] = r
            /\ r = NoKey => \A i \in KeyIndexes(category) : ~Selectable(category, i)
            /\ last_used_index'[category] \in -1..(N - 1)]_vars

\* a call that stepped past a key and wrapped round to a lower index
C31_Witness ==
  /\ km_ret.op = "get_next_available_key"
  /\ km_ret.result # NoKey
  /\ km_ret.result < km_ret.start_index
  /\ last_used_index[km_ret.category] = km_ret.result

(***************************************************************************)
(* Claims about what the KeyManager's methods leave alone.                 *)
(***************************************************************************)
\* every key but <<category, key_index>> has the state it had
OtherKeysKept(category, key_index) ==
  \A k \in AllKeys :
    k # <<category, key_index>> => key_states'[k[1]][k[2]] = key_states[k[1]][k[2]]

\* C32 (Spec): get_next_available_key changes no key's state, and when it
\* returns None it leaves the cursor where it was; report_failure and
\* report_success leave the cursors alone and change the state of no key
\* but the one named.  The call a step made is read from km_ret.
C32_FrameKept ==
  [][/\ km_ret'.op = "get_next_available_key" =>
          /\ key_states' = key_states
          /\ km_ret'.result = NoKey => last_used_index' = last_used_index
          /\ \A c \in ConfiguredCategories \ {km_ret'.category} :
                last_used_index'[c] = last_used_index[c]
     /\ km_ret'.op \in {"report_failure", "report_success"} =>
          /\ last_used_index' = last_used_index
          /\ OtherKeysKept(km_ret'.category, km_ret'.key_index)]_vars

\* a failure was reported for one key of a category whose cursor had moved,
\* and another key of that category is still as it was constructed
C32_Witness ==
  /\ km_ret.op = "report_failure"
  /\ <<km_ret.category, km_ret.key_index>> \in AllKeys
  /\ key_states[km_ret.category][km_ret.key_index] # InitialKeyState
  /\ last_used_index[km_ret.category] # -1
  /\ \E k \in AllKeys :
       /\ k[1] = km_ret.category
       /\ k[2] # km_ret.key_index
       /\ key_states[k[1]][k[2]] = InitialKeyState

\* the steps of the body before the k-th hold, in this order, the write of
\* PROCESSING, an extraction that returned content and a rewrite that
\* returned a payload with its title and content
StagedBefore(steps, k) ==
  \E a, b, c \in 1..(k - 1) :
    /\ a < b /\ b < c
    /\ steps[a] = Step("update_article_status", "PROCESSING", None)
    /\ steps[b] = Step("extract", "content", None)
    /\ steps[c] = Step("rewrite_content", "payload", None)

\* C33 (SpecArticles): create_post is called for an article only after the
\* article was marked PROCESSING, the extraction returned content and the
\* rewrite returned a payload with a title and a content; the article is
\* recorded as published only with the id create_post has just returned,
\* and it is FAILED when create_post returned no id.
C33_PublishGuarded ==
  \A k \in 1..Len(gone.steps) :
    LET st == gone.steps[k]
    IN /\ st.stage = "create_post" => StagedBefore(gone.steps, k)
       /\ st.stage = "save_processed_post" =>
            /\ k > 1
            /\ gone.steps[k - 1] = Step("create_post", "id", st.id)
            /\ st.id \in PostIds
       /\ (st.stage = "create_post" /\ st.result = "none") =>
            /\ article_status[gone.id] = "FAILED"
            /\ \A j \in 1..Len(gone.steps) : gone.steps[j].stage # "save_processed_post"

\* an article was published under the id create_post returned
C33_Witness ==
  /\ gone.path = "published"
  /\ article_status[gone.id] = "PUBLISHED"
  /\ \E k \in 1..Len(gone.steps) :
        /\ gone.steps[k] = Step("create_post", "id", MaxPostId)
        /\ gone.steps[k + 1] = Step("save_processed_post", "PUBLISHED", MaxPostId)

\* the host is on the blocked-domain denylist
OnDenylist(url) == \E d \in DOMAIN_DENYLIST : Contains(d, url.host)

\* the one call of the body was the write of this status
OnlyWrote(g, status) ==
  /\ g.steps = <<Step("update_article_status", status, None)>>
  /\ article_status'[g.id] = status

\* C34 (SpecArticles): an article without a valid URL is written FAILED, an
\* article whose URL is on the denylist or is rejected by the rules of its
\* source is written SKIPPED, and the body makes no other call for it: no
\* extraction, no rewrite, no upload and no create_post.
C34_GatedArticlesStop ==
  [][BodyRan =>
       LET valid == gone'.url.scheme \in {"http", "https"}
       IN /\ ~valid => OnlyWrote(gone', "FAILED")
          /\ (valid /\ OnDenylist(gone'.url)) => OnlyWrote(gone', "SKIPPED")
          /\ (valid /\ ~is_allowed_by_source_rules(source_id, gone'.url))
               => OnlyWrote(gone', "SKIPPED")]_vars

\* an article with a URL on the denylist was skipped, one without a valid
\* URL had failed before
C34_Witness ==
  /\ gone.path = "blocked_domain"
  /\ OnDenylist(gone.url)
  /\ article_status[gone.id] = "SKIPPED"
  /\ \E a \in DOMAIN article_status : a # gone.id /\ article_status[a] = "FAILED"

\* C35 (SpecArticles): an article the body marked PROCESSING has left the
\* body PUBLISHED or FAILED, whichever call failed or raised, and when the
\* cycle has returned no article is PROCESSING.
C35_NoneLeftProcessing ==
  [][/\ (BodyRan /\ \E k \in 1..Len(gone'.writes) : gone'.writes[k].status = "PROCESSING")
          => article_status'[gone'.id] \in {"PUBLISHED", "FAILED"}
     /\ cyc'.pc = "idle" => \A a \in DOMAIN article_status' : article_status'[a] # "PROCESSING"]_vars

\* the cycle is over: one article it marked PROCESSING is PUBLISHED, the
\* other is FAILED
C35_Witness ==
  /\ cyc.pc = "idle"
  /\ cyc.n = 1
  /\ \E a, b \in DOMAIN article_status :
        article_status[a] = "PUBLISHED" /\ article_status[b] = "FAILED"

\* a generation request is made in this step
RequestMade == Len(attempts') = Len(attempts) + 1

\* the part of C36 that holds: the key index of an AIProcessor never
\* decreases; only a new AIProcessor starts again at 0
C36_IndexNeverDecreases ==
  [][CycleBuildsProcessor \/ current_key_index' >= current_key_index]_vars

\* C36 (SpecRewrite): within one AIProcessor the current key index never
\* decreases, and once a request with key k has failed no later request of
\* that AIProcessor, in the same rewrite call or in a later one, is made
\* with a key of index k or lower.
C36_FailedKeyNotReused ==
  [][/\ CycleBuildsProcessor \/ current_key_index' >= current_key_index
     /\ RequestMade => \A k \in failed_keys : model_key > k]_vars

\* the cycle returns in this step
CycleReturns == cyc.pc # "idle" /\ cyc'.pc = "idle"

\* C37 (SpecClose): a cycle that started on its sources closes the Database
\* and the WordPress client once each before it returns, also when an
\* exception escapes the source loop, and closes neither before its end.
C37_ClosedOnce ==
  [][/\ CycleReturns => (res'.db_closes = 1 /\ res'.wp_closes = 1)
     /\ cyc'.pc \notin {"idle"} => (res'.db_closes = 0 /\ res'.wp_closes = 0)]_vars

\* a cycle whose source loop was left by an exception has returned with
\* both closed
C37_Witness ==
  /\ cyc.pc = "idle"
  /\ cyc.n >= 1
  /\ res = Resources(1, 1, TRUE)
  /\ Len(visited) < Len(PIPELINE_ORDER)

\* the n-th cycle of the scheduler raised and no later one was started yet
RaisedLast(n) ==
  /\ sched.mode = "scheduled"
  /\ Len(sched.cycles) = n
  /\ sched.cycles[n] = "raised"

\* C38 (SpecMainFair): in scheduled mode a cycle that raises does not end
\* the scheduler, only an interrupt does, and after it a later cycle is
\* triggered unless the user interrupts; with --once one cycle is run and
\* the process ends, whether that cycle returned or raised.
C38_SchedulerSurvives ==
  /\ [][(sched.mode = "scheduled" /\ sched.pc # "ended" /\ sched'.pc = "ended")
          => sched'.cycles = sched.cycles]_vars
  /\ \A n \in 1..(MaxRuns - 1) :
        RaisedLast(n) ~> (Len(sched.cycles) > n \/ sched.pc = "ended")
  /\ [](sched.mode = "once" => Len(sched.cycles) <= 1)
  /\ []((sched.mode = "once" /\ sched.pc = "ended") => Len(sched.cycles) = 1)
  /\ (sched.pc = "once") ~> (sched.pc = "ended")

\* the scheduler is in its loop after a cycle that raised and a later one
\* that returned
C38_Witness ==
  /\ sched.mode = "scheduled"
  /\ sched.pc = "loop"
  /\ Len(sched.cycles) >= 2
  /\ sched.cycles[1] = "raised"
  /\ sched.cycles[2] = "returned"

\* C39 (SpecUpload): upload_media_from_url makes at most max_attempts
\* attempts, makes another one only after a timeout or a connection error,
\* stops at the first error of another kind, never raises, and returns
\* None unless an attempt went through.
C39_BoundedUpload ==
  /\ Len(up.tried) <= max_attempts
  /\ \A n \in 1..Len(up.tried) :
        (n < Len(up.tried) \/ up.pc = "loop") => Retriable(up.tried[n])
  /\ up.result # "raised"
  /\ up.pc = "done" =>
        /\ up.result \in {"media", "None"}
        /\ up.result = "media" <=> up.tried[Len(up.tried)] = "ok"

\* the call gave up after max_attempts timeouts or connection errors
C39_Witness ==
  /\ up.pc = "done"
  /\ up.result = "None"
  /\ Len(up.tried) = max_attempts
  /\ \A n \in 1..Len(up.tried) : Retriable(up.tried[n])

====
